---- MODULE Spec2Model ----
(***************************************************************************)
(* Monday.com connector (scripts/monday_connector.py) on top of the        *)
(* GraphQL client (scripts/monday_client.py).                              *)
(*                                                                         *)
(* The remote service is a fixed, stateless script `svc`: the answer to a  *)
(* request depends only on the request.  Against it run one eager          *)
(* traversal (fetch_board) and then one lazy traversal                     *)
(* (traverse_hierarchy, pulled by a consumer).                             *)
(*                                                                         *)
(* Encoding of Python values:                                              *)
(*   None                      NoneVal                                     *)
(*   a dict key that is absent KeyMissing                                  *)
(*   cursor None / "" / token  CursorNone / CursorEmpty / a number >= 1    *)
(*                             (the token names the next item to deliver)  *)
(*                                                                         *)
(* `api` is the module state behind monday_api.py: the process environment,*)
(* the default client of monday_client.get_client, the clients constructed *)
(* directly, and the outcomes of the calls made.                           *)
(*                                                                         *)
(* `threads` are two callers on threads of their own: each gets a          *)
(* connector from get_connector() and runs one traversal, their steps      *)
(* interleaved in any order.                                               *)
(*                                                                         *)
(* `drive` is the local OneDrive folder of scripts/onedrive_files.py: the   *)
(* directories under the root, the files in them, and the calls made.      *)
(*                                                                         *)
(* `monday` is the last operation of scripts/monday_api.py a caller made:  *)
(* its arguments, the requests it posted and what it returned.             *)
(*                                                                         *)
(* `events` are the two new-mail handlers of                               *)
(* scripts/email_parser_deprecated.py, each with its processed_ids, and    *)
(* `watch` is the polling loop watch_inbox with the clock and the inbox.   *)
(***************************************************************************)
EXTENDS Integers, Sequences, FiniteSets, TLC

VARIABLES svc, eager, lazy, api, threads, drive, monday, events, watch

vars == <<svc, eager, lazy, api, threads, drive, monday, events, watch>>

-----------------------------------------------------------------------------
(* Bounds of the explored inputs *)

MaxItems == 2

MaxSubitems == 2

MaxColumns == 2

MaxCalls == 2

\* requests a traversal may post to a service that never ends the board
MaxPosts == 4

\* new-mail events delivered to the handlers
MaxEvents == 3

\* readings of the clock of watch_inbox
MaxTime == 12

-----------------------------------------------------------------------------
(* Python value encodings *)

NoneVal == "<None>"

KeyMissing == "<missing>"

CursorNone == -1

CursorEmpty == 0

\* `not cursor` / `if cursor`: None and "" are falsy
Truthy(cursor) == cursor > 0

Min(a, b) == IF a < b THEN a ELSE b

Range(s) == {s[i] : i \in DOMAIN s}

-----------------------------------------------------------------------------
(* The program constant *)

\* page_size = 50
PageSizeHalved == 100 \div 2

\* page_size = 100
PageSize == 100

-----------------------------------------------------------------------------
(* monday_client.py: MondayClientError, MondayClient.query *)

\* MondayClientError(message) with errors and status_code left None: an
\* attribute that is None is left out of the record
MondayClientError(message) == [type |-> "MondayClientError", message |-> message]

\* sep.join(parts)
RECURSIVE Join(_, _)
Join(sep, parts) ==
    IF Len(parts) <= 1 THEN parts ELSE <<Head(parts), sep>> \o Join(sep, Tail(parts))

\* e.get("message", "Unknown error")
ErrorMessage(e) == IF "message" \in DOMAIN e THEN e.message ELSE "Unknown error"

\* query() with the request sent again when requests.post raised
QueryRetrying(resp) ==
    IF resp.exc
    THEN [raised |-> TRUE, posts |-> 2,
          error |-> MondayClientError([fmt |-> "Request failed: {e}"])]
    ELSE IF resp.status_code # 200
    THEN [raised |-> TRUE, posts |-> 1,
          error |-> MondayClientError([fmt |-> "HTTP {status_code}: {text}",
                                       status_code |-> resp.status_code, text |-> resp.text])
                    @@ [status_code |-> resp.status_code]]
    ELSE IF "errors" \in DOMAIN resp.json
    THEN LET errors == resp.json.errors
             messages == [i \in DOMAIN errors |-> ErrorMessage(errors[i])]
         IN  [raised |-> TRUE, posts |-> 1,
              error |-> MondayClientError([fmt |-> "{joined}", joined |-> Join("; ", messages)])
                        @@ [errors |-> errors, status_code |-> resp.status_code]]
    ELSE [raised |-> FALSE, posts |-> 1,
          data |-> IF "data" \in DOMAIN resp.json THEN resp.json.data ELSE <<>>]

\* query() with an error list ignored when the body has data as well
QueryReturningPartial(resp) ==
    IF resp.exc
    THEN [raised |-> TRUE, posts |-> 1,
          error |-> MondayClientError([fmt |-> "Request failed: {e}"])]
    ELSE IF resp.status_code # 200
    THEN [raised |-> TRUE, posts |-> 1,
          error |-> MondayClientError([fmt |-> "HTTP {status_code}: {text}",
                                       status_code |-> resp.status_code, text |-> resp.text])
                    @@ [status_code |-> resp.status_code]]
    ELSE IF "errors" \in DOMAIN resp.json /\ "data" \notin DOMAIN resp.json
    THEN LET errors == resp.json.errors
             messages == [i \in DOMAIN errors |-> ErrorMessage(errors[i])]
         IN  [raised |-> TRUE, posts |-> 1,
              error |-> MondayClientError([fmt |-> "{joined}", joined |-> Join("; ", messages)])
                        @@ [errors |-> errors, status_code |-> resp.status_code]]
    ELSE [raised |-> FALSE, posts |-> 1,
          data |-> IF "data" \in DOMAIN resp.json THEN resp.json.data ELSE <<>>]

\* query(): one requests.post (posts counts them), then the three checks in the
\* code's order; resp is what the post gave: an exception, or a status code, the
\* raw text and (read only when the status is 200) the decoded body
Query(resp) ==
    IF resp.exc
    THEN [raised |-> TRUE, posts |-> 1,
          error |-> MondayClientError([fmt |-> "Request failed: {e}"])]
    ELSE IF resp.status_code # 200
    THEN [raised |-> TRUE, posts |-> 1,
          error |-> MondayClientError([fmt |-> "HTTP {status_code}: {text}",
                                       status_code |-> resp.status_code, text |-> resp.text])
                    @@ [status_code |-> resp.status_code]]
    ELSE IF "errors" \in DOMAIN resp.json
    THEN LET errors == resp.json.errors
             messages == [i \in DOMAIN errors |-> ErrorMessage(errors[i])]
         IN  [raised |-> TRUE, posts |-> 1,
              error |-> MondayClientError([fmt |-> "{joined}", joined |-> Join("; ", messages)])
                        @@ [errors |-> errors, status_code |-> resp.status_code]]
    ELSE [raised |-> FALSE, posts |-> 1,
          data |-> IF "data" \in DOMAIN resp.json THEN resp.json.data ELSE <<>>]

-----------------------------------------------------------------------------
(* The remote service: what requests.post gives back *)

\* the part of a board the service could still resolve when it reports errors
PartialData == [boards |-> <<>>]

\* the failing answers, by name
HttpFailure(kind) ==
    CASE kind = "transport" ->
            [exc |-> TRUE, status_code |-> 0, text |-> "", json |-> <<>>]
      [] kind = "http" ->
            [exc |-> FALSE, status_code |-> 500, text |-> "Internal Server Error", json |-> <<>>]
      [] kind = "http_errors" ->
            [exc |-> FALSE, status_code |-> 401, text |-> "{errors: [Not Authenticated]}",
             json |-> [errors |-> <<[message |-> "Not Authenticated"]>>]]
      [] kind = "graphql" ->
            [exc |-> FALSE, status_code |-> 200, text |-> "{errors: [m1]}",
             json |-> [errors |-> <<[message |-> "m1"]>>]]
      [] kind = "graphql_two" ->
            [exc |-> FALSE, status_code |-> 200, text |-> "{errors: [m1, m2]}",
             json |-> [errors |-> <<[message |-> "m1"], [message |-> "m2"]>>]]
      [] kind = "graphql_nomessage" ->
            [exc |-> FALSE, status_code |-> 200, text |-> "{errors: [{code: c}, m2]}",
             json |-> [errors |-> <<[code |-> "c"], [message |-> "m2"]>>]]
      [] kind = "graphql_partial" ->
            [exc |-> FALSE, status_code |-> 200, text |-> "{errors: [m1, m2], data: {boards: []}}",
             json |-> [errors |-> <<[message |-> "m1"], [message |-> "m2"]>>,
                       data |-> PartialData]]
      [] kind = "nodata" ->
            [exc |-> FALSE, status_code |-> 200, text |-> "{}", json |-> <<>>]

FailureKinds ==
    {"transport", "http", "http_errors", "graphql", "graphql_two", "graphql_nomessage",
     "graphql_partial", "nodata"}

HttpOk(data) == [exc |-> FALSE, status_code |-> 200, text |-> "{data: ...}", json |-> [data |-> data]]

\* answer to BOARD_SCHEMA_QUERY
SchemaResponse(s) ==
    IF s.discovery \in FailureKinds THEN HttpFailure(s.discovery)
    ELSE IF s.discovery = "notfound" THEN HttpOk([boards |-> <<>>])
    ELSE HttpOk([boards |-> <<[id |-> s.board, groups |-> s.groups, columns |-> s.columns]>>])

\* how many items the service is ready to put in the page that starts at an
\* item: s.cap for every page, unless s.caps says otherwise for that item
PageCap(s, start) == IF start \in DOMAIN s.caps THEN s.caps[start] ELSE s.cap

\* answer to BOARD_ITEMS_QUERY: at most min(limit, cap) items from the cursor on
ItemsResponse(s, cursor, limit) ==
    LET start == IF cursor = CursorNone THEN 1 ELSE cursor
        size == Min(PageCap(s, start), limit)
        stop == Min(start + size - 1, Len(s.items))
        next == IF stop >= Len(s.items) THEN s.endCursor ELSE stop + 1
    IN  IF s.failKind # "none" /\ cursor = s.failCursor
        THEN IF s.failKind = "noboard" THEN HttpOk([boards |-> <<>>])
             ELSE HttpFailure(s.failKind)
        ELSE HttpOk([boards |-> <<[items_page |->
                 [cursor |-> next, items |-> SubSeq(s.items, start, stop)]]>>])

-----------------------------------------------------------------------------
(* monday_connector.py: render hints and column schemas *)

\* MONDAY_TYPE_TO_RENDER_HINT
RenderHintTable ==
    [name |-> "text", text |-> "text", long_text |-> "longtext", status |-> "status",
     date |-> "date", people |-> "person", numbers |-> "number",
     dropdown |-> "select", color_picker |-> "select",
     timeline |-> "timeline", doc |-> "doc", file |-> "file", link |-> "url",
     email |-> "email", phone |-> "phone", checkbox |-> "checkbox",
     board_relation |-> "relation", mirror |-> "mirror", subtasks |-> "subtasks",
     country |-> "text", location |-> "text", rating |-> "number",
     auto_number |-> "number", formula |-> "text", tags |-> "tags", week |-> "date",
     hour |-> "text", world_clock |-> "text", dependency |-> "relation"]

\* MONDAY_TYPE_TO_RENDER_HINT.get(tag, 'text')
RenderHint(tag) ==
    IF tag \in DOMAIN RenderHintTable THEN RenderHintTable[tag] ELSE "text"

\* MondayColumnSchema.render_hint
ColumnRenderHint(column) == RenderHint(column.type)

\* json.loads of a settings_str: the decoded value, or JSONDecodeError; a dict
\* is a function from its keys, {} the empty one
JsonLoads(str) ==
    CASE str = "{}" -> [ok |-> TRUE, value |-> <<>>]
      [] str = "{\"hide_footer\": true}" -> [ok |-> TRUE, value |-> [hide_footer |-> TRUE]]
      [] str = "{\"labels\": {\"1\": \"Done\"}}" ->
            [ok |-> TRUE, value |-> [labels |-> [l1 |-> "Done"]]]
      [] str = "{\"labels\": {\"0\": \"Stuck\"}}" ->
            [ok |-> TRUE, value |-> [labels |-> [l0 |-> "Stuck"]]]
      [] OTHER -> [ok |-> FALSE]

\* `if col.get("settings_str")`: a missing key, None and "" are falsy
HasSettingsStr(col) == col.settings_str \notin {KeyMissing, NoneVal, ""}

\* MondayColumnSchema(id, title, type, settings) as discover_board_schema builds
\* it; settings = None is the record without the settings field
ColumnSchema(col) ==
    LET bare == [id |-> col.id, title |-> col.title, type |-> col.type]
    IN  IF HasSettingsStr(col) /\ JsonLoads(col.settings_str).ok
        THEN bare @@ [settings |-> JsonLoads(col.settings_str).value]
        ELSE bare

\* MondayColumnSchema.labels
Labels(column) ==
    IF /\ "settings" \in DOMAIN column
       /\ DOMAIN column.settings # {}
       /\ "labels" \in DOMAIN column.settings
    THEN column.settings.labels
    ELSE <<>>

\* the loop over board.get("columns", [])
ColumnSchemas(columns) == [i \in DOMAIN columns |-> ColumnSchema(columns[i])]

-----------------------------------------------------------------------------
(* monday_connector.py: nodes *)

Node(type, id, children, group_id, parent_item_id) ==
    [type |-> type, id |-> id, column_values |-> <<>>, children |-> children,
     group_id |-> group_id, parent_item_id |-> parent_item_id]

\* column_map.get(cv["id"]): the index of the schema column with this id, a
\* later one winning over an earlier one; 0 stands for None
ColumnMap(columns, id) ==
    IF \E i \in DOMAIN columns : columns[i].id = id
    THEN CHOOSE i \in DOMAIN columns :
            columns[i].id = id /\ \A j \in DOMAIN columns : columns[j].id = id => j <= i
    ELSE 0

\* cv.get("type") is truthy
HasType(cv) == cv.type \notin {KeyMissing, NoneVal, ""}

\* ParsedValue with json.loads never tried: every payload is kept as it came
ParsedValueUndecoded(cv) ==
    IF cv.value \in {KeyMissing, NoneVal, ""} THEN <<>>
    ELSE [value |-> [raw |-> cv.value]]

\* the parsed value: left out of the record when None, else the decoded value
\* (json) or the raw payload (raw)
ParsedValue(cv) ==
    IF cv.value \in {KeyMissing, NoneVal, ""} THEN <<>>
    ELSE IF JsonLoads(cv.value).ok THEN [value |-> [json |-> JsonLoads(cv.value).value]]
    ELSE [value |-> [raw |-> cv.value]]

\* ColumnValue with the hint taken from the schema column's type whenever the
\* schema has the column
ColumnValueSchemaFirst(cv, columns) ==
    LET k == ColumnMap(columns, cv.id)
    IN  [id |-> cv.id,
         title |-> IF k # 0 THEN columns[k].title ELSE cv.id,
         type |-> IF HasType(cv) THEN cv.type
                  ELSE IF k # 0 THEN columns[k].type ELSE "unknown",
         text |-> cv.text,
         render_hint |-> RenderHint(IF k # 0 THEN columns[k].type
                                    ELSE IF HasType(cv) THEN cv.type ELSE "")]
        @@ ParsedValue(cv)

\* MondayColumnValue as _create_item_node builds it
ColumnValue(cv, columns) ==
    LET k == ColumnMap(columns, cv.id)
    IN  [id |-> cv.id,
         title |-> IF k # 0 THEN columns[k].title ELSE cv.id,
         type |-> IF HasType(cv) THEN cv.type
                  ELSE IF k # 0 THEN columns[k].type ELSE "unknown",
         text |-> cv.text,
         render_hint |-> RenderHint(IF HasType(cv) THEN cv.type
                                    ELSE IF k # 0 THEN columns[k].type ELSE "")]
        @@ ParsedValue(cv)

\* _create_item_node: metadata carries neither group_id nor parent_item_id yet
CreateItemNode(item, node_type, columns) ==
    [Node(node_type, item.id, <<>>, KeyMissing, KeyMissing) EXCEPT
        !.column_values = [i \in DOMAIN item.column_values |->
                              ColumnValue(item.column_values[i], columns)]]

\* item.get("group", {}).get("id") raises AttributeError when "group" is null
GroupLookupRaises(item) == item.group = NoneVal

\* item.get("group", {}).get("id")
ItemGroupId(item) == IF item.group = KeyMissing THEN NoneVal ELSE item.group

\* SubitemNode with the subitem's own id recorded as its parent id
SubitemNodeSelfParent(item, subitem, columns) ==
    [CreateItemNode(subitem, "subitem", columns) EXCEPT !.parent_item_id = subitem.id]

SubitemNode(item, subitem, columns) ==
    [CreateItemNode(subitem, "subitem", columns) EXCEPT !.parent_item_id = item.id]

SubitemNodes(item, columns) ==
    [j \in 1..Len(item.subitems) |-> SubitemNode(item, item.subitems[j], columns)]

GroupNode(gid) == Node("group", gid, <<>>, gid, KeyMissing)

\* group_map after the loop over schema.groups: a later group with the same id wins
GroupMap(groups) ==
    [g \in Range(groups) |->
        CHOOSE i \in DOMAIN groups : groups[i] = g /\ \A j \in DOMAIN groups : groups[j] = g => j <= i]

\* group_map.get(group_id) if group_id else None; 0 stands for no parent group
ParentGroup(groups, group_id) ==
    IF group_id # NoneVal /\ group_id # "" /\ group_id \in Range(groups)
    THEN GroupMap(groups)[group_id] ELSE 0

\* data.get("boards", [])
BoardsOf(data) == IF "boards" \in DOMAIN data THEN data.boards ELSE <<>>

\* discover_board_schema with an empty schema returned when no board is found
DiscoverEmptySchema(result) ==
    IF result.raised THEN result
    ELSE IF BoardsOf(result.data) = <<>>
    THEN [raised |-> FALSE, schema |-> [board_id |-> NoneVal, groups |-> <<>>, columns |-> <<>>]]
    ELSE [raised |-> FALSE, schema |-> [board_id |-> result.data.boards[1].id,
                                        groups |-> result.data.boards[1].groups,
                                        columns |-> ColumnSchemas(result.data.boards[1].columns)]]

\* discover_board_schema
Discover(result) ==
    IF result.raised THEN result
    ELSE IF BoardsOf(result.data) = <<>> THEN [raised |-> TRUE, error |-> [type |-> "ValueError", kind |-> "notfound"]]
    ELSE [raised |-> FALSE, schema |-> [board_id |-> result.data.boards[1].id,
                                        groups |-> result.data.boards[1].groups,
                                        columns |-> ColumnSchemas(result.data.boards[1].columns)]]

\* FetchItemsPage with a page answer without board raised like a missing board
FetchItemsPageNotFound(result) ==
    IF result.raised THEN result
    ELSE IF BoardsOf(result.data) = <<>>
    THEN [raised |-> TRUE, error |-> [type |-> "ValueError", kind |-> "notfound"]]
    ELSE [raised |-> FALSE, cursor |-> result.data.boards[1].items_page.cursor,
          items |-> result.data.boards[1].items_page.items]

\* _fetch_items_page
FetchItemsPage(result) ==
    IF result.raised THEN result
    ELSE IF BoardsOf(result.data) = <<>> THEN [raised |-> FALSE, cursor |-> CursorNone, items |-> <<>>]
    ELSE [raised |-> FALSE, cursor |-> result.data.boards[1].items_page.cursor,
          items |-> result.data.boards[1].items_page.items]

\* the board node with one group node per schema group, in schema order
BoardNode(schema) ==
    Node("board", schema.board_id, [i \in DOMAIN schema.groups |-> GroupNode(schema.groups[i])],
         KeyMissing, KeyMissing)

\* AttachItem with the fallback branch lost: an item without parent group is dropped
AttachItemDropUngrouped(tree, schema, item) ==
    LET gid == ItemGroupId(item)
        parent == ParentGroup(schema.groups, gid)
        bare == [CreateItemNode(item, "item", schema.columns)
                    EXCEPT !.children = SubitemNodes(item, schema.columns)]
    IN  IF parent # 0
        THEN [tree EXCEPT !.children[parent].children =
                 Append(@, [bare EXCEPT !.group_id = gid])]
        ELSE tree

\* AttachItem with `else` lost: every item is appended to the board as well
AttachItemAlsoBoard(tree, schema, item) ==
    LET gid == ItemGroupId(item)
        parent == ParentGroup(schema.groups, gid)
        bare == [CreateItemNode(item, "item", schema.columns)
                    EXCEPT !.children = SubitemNodes(item, schema.columns)]
        grouped == IF parent # 0
                   THEN [tree EXCEPT !.children[parent].children =
                            Append(@, [bare EXCEPT !.group_id = gid])]
                   ELSE tree
    IN  [grouped EXCEPT !.children = Append(@, bare)]

\* AttachItem with insert(0, ...) in place of append
AttachItemPrepend(tree, schema, item) ==
    LET gid == ItemGroupId(item)
        parent == ParentGroup(schema.groups, gid)
        bare == [CreateItemNode(item, "item", schema.columns)
                    EXCEPT !.children = SubitemNodes(item, schema.columns)]
    IN  IF parent # 0
        THEN [tree EXCEPT !.children[parent].children =
                 <<[bare EXCEPT !.group_id = gid]>> \o @]
        ELSE [tree EXCEPT !.children = Append(@, bare)]

\* one iteration of fetch_board's loop over page["items"]
AttachItem(tree, schema, item) ==
    LET gid == ItemGroupId(item)
        parent == ParentGroup(schema.groups, gid)
        bare == [CreateItemNode(item, "item", schema.columns)
                    EXCEPT !.children = SubitemNodes(item, schema.columns)]
    IN  IF parent # 0
        THEN [tree EXCEPT !.children[parent].children =
                 Append(@, [bare EXCEPT !.group_id = gid])]
        ELSE [tree EXCEPT !.children = Append(@, bare)]

\* the iterations lo..hi of fetch_board's loop over page["items"], in order
RECURSIVE AttachRange(_, _, _, _, _)
AttachRange(tree, schema, items, lo, hi) ==
    IF lo > hi THEN tree
    ELSE IF lo = hi THEN AttachItem(tree, schema, items[lo])
    ELSE LET mid == (lo + hi) \div 2
             left == AttachRange(tree, schema, items, lo, mid)
         IN  \* the test is always true: it has the left half evaluated first
             IF left.type = tree.type
             THEN AttachRange(left, schema, items, mid + 1, hi)
             ELSE left

\* AttachItems with the items of a page attached last to first
AttachItemsPageReversed(tree, schema, items) ==
    IF \E k \in DOMAIN items : GroupLookupRaises(items[k])
    THEN [raised |-> TRUE, error |-> [type |-> "AttributeError", kind |-> "nullgroup"]]
    ELSE [raised |-> FALSE,
          tree |-> AttachRange(tree, schema,
                               [k \in DOMAIN items |-> items[Len(items) + 1 - k]],
                               1, Len(items))]

\* fetch_board's loop over page["items"]: the first null group raises and the
\* tree built so far is lost with the call
AttachItems(tree, schema, items) ==
    IF \E k \in DOMAIN items : GroupLookupRaises(items[k])
    THEN [raised |-> TRUE, error |-> [type |-> "AttributeError", kind |-> "nullgroup"]]
    ELSE [raised |-> FALSE, tree |-> AttachRange(tree, schema, items, 1, Len(items))]

\* traverse_hierarchy's item node
LazyItemNode(item, columns) ==
    [CreateItemNode(item, "item", columns) EXCEPT !.group_id = ItemGroupId(item)]

-----------------------------------------------------------------------------
(* Traversal state *)

NoTree == Node("none", NoneVal, <<>>, KeyMissing, KeyMissing)

NoError == [type |-> "none", kind |-> "none"]

NoSchema == [board_id |-> NoneVal, groups |-> <<>>, columns |-> <<>>]

SchemaRequest == [op |-> "schema", cursor |-> CursorNone, limit |-> 0]

ItemsRequest(cursor) == [op |-> "items", cursor |-> cursor, limit |-> PageSize]

EagerInit ==
    [pc |-> "init", schema |-> NoSchema, tree |-> NoTree, returned |-> FALSE,
     cursor |-> CursorNone, page |-> <<>>, delivered |-> <<>>, log |-> <<>>,
     posts |-> 0, error |-> NoError]

LazyInit ==
    [pc |-> "init", include_subitems |-> TRUE, schema |-> NoSchema,
     cursor |-> CursorNone, page |-> <<>>, ii |-> 0, si |-> 0, gi |-> 0,
     pulls |-> 0, yielded |-> <<>>, delivered |-> <<>>, log |-> <<>>, posts |-> 0,
     error |-> NoError]

\* Propagate with the exception caught and the traversal ended normally
PropagateAsEnd(t, err) == [t EXCEPT !.pc = "done"]

\* Propagate with the exception caught and what was built so far returned
PropagateAsPartial(t, err) ==
    IF "returned" \in DOMAIN t THEN [t EXCEPT !.pc = "done", !.returned = TRUE]
    ELSE [t EXCEPT !.pc = "done"]

\* an exception leaves the traversal: nothing in the connector catches it
Propagate(t, err) == [t EXCEPT !.pc = "failed", !.error = err]

\* LoopOrStop with the cursor never handed on: every page request starts over
LoopOrStopFromStart(t, done) ==
    IF Truthy(t.cursor)
    THEN [t EXCEPT !.pc = "fetching", !.log = Append(@, ItemsRequest(CursorNone))]
    ELSE done

\* LoopOrStop with a guard of its own: a cursor already sent ends the loop
LoopOrStopOnRepeat(t, done) ==
    IF Truthy(t.cursor) /\ \A k \in DOMAIN t.log : t.log[k].cursor # t.cursor
    THEN [t EXCEPT !.pc = "fetching", !.log = Append(@, ItemsRequest(t.cursor))]
    ELSE done

\* `if not cursor: break`, else the next _fetch_items_page
LoopOrStop(t, done) ==
    IF Truthy(t.cursor)
    THEN [t EXCEPT !.pc = "fetching", !.log = Append(@, ItemsRequest(t.cursor))]
    ELSE done

-----------------------------------------------------------------------------
(* fetch_board *)

EagerFinished == eager.pc \in {"done", "failed"}

\* fetch_board from one blocking point to the next, against the service s:
\* the call is entered and discovery sends its query; the schema query returns
\* or raises and the board and group nodes are built; _fetch_items_page
\* returns or raises; the loop over the page's items runs, then the cursor test
EagerStep(t, s) ==
    CASE t.pc = "init" ->
            [t EXCEPT !.pc = "discovering", !.log = Append(@, SchemaRequest)]
      [] t.pc = "discovering" ->
            LET q == Query(SchemaResponse(s))
                d == Discover(q)
                sent == [t EXCEPT !.posts = @ + q.posts]
            IN  IF d.raised THEN Propagate(sent, d.error)
                ELSE [sent EXCEPT !.pc = "fetching", !.schema = d.schema,
                                   !.tree = BoardNode(d.schema),
                                   !.log = Append(@, ItemsRequest(CursorNone))]
      [] t.pc = "fetching" ->
            LET req == t.log[Len(t.log)]
                q == Query(ItemsResponse(s, req.cursor, req.limit))
                p == FetchItemsPage(q)
                sent == [t EXCEPT !.posts = @ + q.posts]
            IN  IF p.raised THEN Propagate(sent, p.error)
                ELSE [sent EXCEPT !.pc = "attaching", !.cursor = p.cursor,
                                   !.page = p.items, !.delivered = @ \o p.items]
      [] t.pc = "attaching" ->
            LET a == AttachItems(t.tree, t.schema, t.page)
            IN  IF a.raised THEN Propagate(t, a.error)
                ELSE LET u == [t EXCEPT !.tree = a.tree, !.page = <<>>]
                     IN  LoopOrStop(u, [u EXCEPT !.pc = "done", !.returned = TRUE])
      [] OTHER -> t

\* the caller enters fetch_board: discover_board_schema sends its query
EagerCall ==
    /\ eager.pc = "init"
    /\ eager' = EagerStep(eager, svc)
    /\ UNCHANGED <<svc, lazy, api, threads, drive, monday, events, watch>>

\* the schema query returns or raises; the board and group nodes are built
EagerDiscoverReturn ==
    /\ eager.pc = "discovering"
    /\ eager' = EagerStep(eager, svc)
    /\ UNCHANGED <<svc, lazy, api, threads, drive, monday, events, watch>>

\* _fetch_items_page returns or raises
EagerPageReturn ==
    /\ eager.pc = "fetching"
    /\ eager' = EagerStep(eager, svc)
    /\ UNCHANGED <<svc, lazy, api, threads, drive, monday, events, watch>>

\* the loop over the page's items, then the cursor test
EagerAttach ==
    /\ eager.pc = "attaching"
    /\ eager' = EagerStep(eager, svc)
    /\ UNCHANGED <<svc, lazy, api, threads, drive, monday, events, watch>>

-----------------------------------------------------------------------------
(* traverse_hierarchy *)

\* Yield with the node handed to the consumer twice
YieldTwice(t, node) == [t EXCEPT !.yielded = @ \o <<node, node>>]

Yield(t, node) == [t EXCEPT !.yielded = Append(@, node)]

\* the generator is suspended at a yield (or not started) and can be pulled
Suspended(t) ==
    \/ t.pc \in {"init", "groups"}
    \/ t.pc = "attaching" /\ t.ii >= 1

LazySuspended == Suspended(lazy)

\* LazyAdvance with the subitems of an item yielded last to first
LazyAdvanceSubitemsReversed(t) ==
    LET item == t.page[t.ii]
    IN  IF t.ii >= 1 /\ t.include_subitems /\ t.si < Len(item.subitems)
        THEN Yield([t EXCEPT !.si = t.si + 1],
                   SubitemNode(item, item.subitems[Len(item.subitems) - t.si], t.schema.columns))
        ELSE IF t.ii < Len(t.page)
             THEN IF GroupLookupRaises(t.page[t.ii + 1])
                  THEN Propagate(t, [type |-> "AttributeError", kind |-> "nullgroup"])
                  ELSE Yield([t EXCEPT !.ii = t.ii + 1, !.si = 0],
                             LazyItemNode(t.page[t.ii + 1], t.schema.columns))
             ELSE LoopOrStop(t, [t EXCEPT !.pc = "done"])

\* LazyAdvance with the next page requested as soon as the last node of the
\* page has been yielded, before the consumer pulls again
LazyAdvancePrefetch(t) ==
    LET item == t.page[t.ii]
        next == IF t.ii >= 1 /\ t.include_subitems /\ t.si < Len(item.subitems)
                THEN Yield([t EXCEPT !.si = t.si + 1],
                           SubitemNode(item, item.subitems[t.si + 1], t.schema.columns))
                ELSE IF t.ii < Len(t.page)
                     THEN IF GroupLookupRaises(t.page[t.ii + 1])
                          THEN Propagate(t, [type |-> "AttributeError", kind |-> "nullgroup"])
                          ELSE Yield([t EXCEPT !.ii = t.ii + 1, !.si = 0],
                                     LazyItemNode(t.page[t.ii + 1], t.schema.columns))
                     ELSE LoopOrStop(t, [t EXCEPT !.pc = "done"])
    IN  IF /\ next.pc = "attaching" /\ next.ii = Len(next.page)
           /\ (~next.include_subitems \/ next.si = Len(next.page[next.ii].subitems))
        THEN LoopOrStop(next, next)
        ELSE next

\* LazyAdvance with the subitems yielded whatever include_subitems says
LazyAdvanceAllSubitems(t) ==
    LET item == t.page[t.ii]
    IN  IF t.ii >= 1 /\ t.si < Len(item.subitems)
        THEN Yield([t EXCEPT !.si = t.si + 1], SubitemNode(item, item.subitems[t.si + 1],
                                                               t.schema.columns))
        ELSE IF t.ii < Len(t.page)
             THEN IF GroupLookupRaises(t.page[t.ii + 1])
                  THEN Propagate(t, [type |-> "AttributeError", kind |-> "nullgroup"])
                  ELSE Yield([t EXCEPT !.ii = t.ii + 1, !.si = 0],
                             LazyItemNode(t.page[t.ii + 1], t.schema.columns))
             ELSE LoopOrStop(t, [t EXCEPT !.pc = "done"])

\* the for loops of traverse_hierarchy from the position (ii, si) to the next
\* yield, the next page request, or the end
LazyAdvance(t) ==
    LET item == t.page[t.ii]
    IN  IF t.ii >= 1 /\ t.include_subitems /\ t.si < Len(item.subitems)
        THEN Yield([t EXCEPT !.si = t.si + 1], SubitemNode(item, item.subitems[t.si + 1],
                                                               t.schema.columns))
        ELSE IF t.ii < Len(t.page)
             THEN IF GroupLookupRaises(t.page[t.ii + 1])
                  THEN Propagate(t, [type |-> "AttributeError", kind |-> "nullgroup"])
                  ELSE Yield([t EXCEPT !.ii = t.ii + 1, !.si = 0],
                             LazyItemNode(t.page[t.ii + 1], t.schema.columns))
             ELSE LoopOrStop(t, [t EXCEPT !.pc = "done"])

\* Pull with the schema of the board kept from the fetch_board before: the first
\* pull then yields the board node without a schema query
PullCachedSchema(t, inc) ==
    CASE t.pc = "init" ->
            IF eager.schema # NoSchema
            THEN Yield([t EXCEPT !.pc = "groups", !.include_subitems = inc,
                                 !.pulls = @ + 1, !.schema = eager.schema, !.gi = 0],
                       Node("board", eager.schema.board_id, <<>>, KeyMissing, KeyMissing))
            ELSE [t EXCEPT !.pc = "discovering", !.include_subitems = inc,
                           !.pulls = @ + 1,
                           !.log = Append(@, SchemaRequest)]
      [] t.pc = "groups" ->
            IF t.gi < Len(t.schema.groups)
            THEN Yield([t EXCEPT !.gi = t.gi + 1, !.pulls = @ + 1],
                       GroupNode(t.schema.groups[t.gi + 1]))
            ELSE [t EXCEPT !.pc = "fetching", !.pulls = @ + 1,
                           !.log = Append(@, ItemsRequest(CursorNone))]
      [] t.pc = "attaching" -> LazyAdvance([t EXCEPT !.pulls = @ + 1])
      [] OTHER -> t

\* next() on the suspended generator t: the first pull starts the body (the
\* call's include_subitems is inc), a later one resumes it after the yield
Pull(t, inc) ==
    CASE t.pc = "init" ->
            [t EXCEPT !.pc = "discovering", !.include_subitems = inc,
                      !.pulls = @ + 1,
                      !.log = Append(@, SchemaRequest)]
      [] t.pc = "groups" ->
            IF t.gi < Len(t.schema.groups)
            THEN Yield([t EXCEPT !.gi = t.gi + 1, !.pulls = @ + 1],
                       GroupNode(t.schema.groups[t.gi + 1]))
            ELSE [t EXCEPT !.pc = "fetching", !.pulls = @ + 1,
                           !.log = Append(@, ItemsRequest(CursorNone))]
      [] t.pc = "attaching" -> LazyAdvance([t EXCEPT !.pulls = @ + 1])
      [] OTHER -> t

\* the generator body of t between a pull and the next yield, against the
\* service s: the schema query returns or raises and the board node is yielded;
\* _fetch_items_page returns or raises; the loop over the page received runs
\* up to its first yield
LazyStep(t, s) ==
    CASE t.pc = "discovering" ->
            LET q == Query(SchemaResponse(s))
                d == Discover(q)
                sent == [t EXCEPT !.posts = @ + q.posts]
            IN  IF d.raised THEN Propagate(sent, d.error)
                ELSE Yield([sent EXCEPT !.pc = "groups", !.schema = d.schema, !.gi = 0],
                           Node("board", d.schema.board_id, <<>>, KeyMissing, KeyMissing))
      [] t.pc = "fetching" ->
            LET req == t.log[Len(t.log)]
                q == Query(ItemsResponse(s, req.cursor, req.limit))
                p == FetchItemsPage(q)
                sent == [t EXCEPT !.posts = @ + q.posts]
            IN  IF p.raised THEN Propagate(sent, p.error)
                ELSE [sent EXCEPT !.pc = "attaching", !.cursor = p.cursor,
                                  !.page = p.items, !.ii = 0, !.si = 0,
                                  !.delivered = @ \o p.items]
      [] t.pc = "attaching" /\ t.ii = 0 -> LazyAdvance(t)
      [] OTHER -> t

\* the consumer calls next() on the generator; the two runs are compared one
\* after the other, so the consumer starts once fetch_board has ended
LazyPull ==
    /\ EagerFinished
    /\ LazySuspended
    /\ \E inc \in BOOLEAN : lazy' = Pull(lazy, inc)
    /\ UNCHANGED <<svc, eager, api, threads, drive, monday, events, watch>>

\* the schema query returns or raises; the board node is yielded
LazyDiscoverReturn ==
    /\ lazy.pc = "discovering"
    /\ lazy' = LazyStep(lazy, svc)
    /\ UNCHANGED <<svc, eager, api, threads, drive, monday, events, watch>>

\* _fetch_items_page returns or raises
LazyPageReturn ==
    /\ lazy.pc = "fetching"
    /\ lazy' = LazyStep(lazy, svc)
    /\ UNCHANGED <<svc, eager, api, threads, drive, monday, events, watch>>

\* the loop over the received page starts: up to its first yield
LazyAttach ==
    /\ lazy.pc = "attaching"
    /\ lazy.ii = 0
    /\ lazy' = LazyStep(lazy, svc)
    /\ UNCHANGED <<svc, eager, api, threads, drive, monday, events, watch>>

-----------------------------------------------------------------------------
(* monday_client.py: construction and the default client; monday_api.py *)

\* `token or os.getenv(...)`, `if not self.token`: None and "" are falsy
HasToken(token) == token \notin {NoneVal, ""}

\* MondayClient(token): a client holding its token, or ValueError
MondayClientInit(token, env) ==
    LET chosen == IF HasToken(token) THEN token ELSE env
    IN  IF HasToken(chosen) THEN [raised |-> FALSE, token |-> chosen]
        ELSE [raised |-> TRUE, error |-> [type |-> "ValueError", kind |-> "token_required"]]

\* get_client(): the default client, constructed from the environment when
\* there is none yet; a client is named by the token it holds
GetClient(a) ==
    IF a.default_client # NoneVal THEN [raised |-> FALSE, client |-> a.default_client]
    ELSE LET made == MondayClientInit(NoneVal, a.env)
         IN  IF made.raised THEN made ELSE [raised |-> FALSE, client |-> made.token]

\* str(e)
Str(e) == IF "message" \in DOMAIN e THEN e.message ELSE [fmt |-> e.kind]

\* _make_request: {"data": ...}, or {"error": ..., "details": ...} for a client
\* error (details left out when e.errors is None), or {"error": ...}
MakeRequest(a, resp) ==
    LET got == GetClient(a)
        q == Query(resp)
    IN  IF got.raised THEN [error |-> Str(got.error)]
        ELSE IF ~q.raised THEN [data |-> q.data]
        ELSE IF "errors" \in DOMAIN q.error
             THEN [error |-> Str(q.error), details |-> q.error.errors]
             ELSE [error |-> Str(q.error)]

ApiInit(env) == [env |-> env, default_client |-> NoneVal, clients |-> {}, calls |-> <<>>]

EnvValues == {NoneVal, "", "envtoken"}

\* what requests.post gives to the calls made through monday_api
ApiResponses ==
    {HttpOk(PartialData), HttpFailure("transport"), HttpFailure("http"),
     HttpFailure("graphql_two")}

\* the process environment changes
SetEnv ==
    /\ \E v \in EnvValues \ {api.env} : api' = [api EXCEPT !.env = v]
    /\ UNCHANGED <<svc, eager, lazy, threads, drive, monday, events, watch>>

\* a caller constructs MondayClient(token)
Construct ==
    /\ Len(api.calls) < MaxCalls
    /\ \E token \in {NoneVal, "", "argtoken"} :
          LET made == MondayClientInit(token, api.env)
          IN  api' = [api EXCEPT
                        !.clients = IF made.raised THEN @ ELSE @ \cup {made.token},
                        !.calls = Append(@, [op |-> "MondayClient", result |-> made])]
    /\ UNCHANGED <<svc, eager, lazy, threads, drive, monday, events, watch>>

\* `if variables:`: None and {} are falsy
HasVariables(variables) == variables \notin {"none", "empty"}

\* the headers and the JSON payload query() posts
Request(client, text, variables) ==
    [authorization |-> client,
     payload |-> IF HasVariables(variables) THEN [query |-> text, variables |-> variables]
                 ELSE [query |-> text]]

\* client.query(text, variables) when requests.post gives resp: what was posted
\* and what the call returns or raises
QueryCall(client, text, variables, resp) ==
    [request |-> Request(client, text, variables), result |-> Query(resp)]

\* mutate() with the variables not handed on
MutateCallBare(client, text, variables, resp) == QueryCall(client, text, "none", resp)

\* client.mutate(text, variables): `return self.query(mutation, variables)`
MutateCall(client, text, variables, resp) == QueryCall(client, text, variables, resp)

\* the operations callers send: a read without variables or with an empty map
\* of them, and the two mutations of the consumers with their variables
Operations ==
    {[text |-> "query { me }", variables |-> "none"],
     [text |-> "query { boards }", variables |-> "empty"],
     [text |-> "mutation { create_item }", variables |-> "item_vars"],
     [text |-> "mutation { change_column_value }", variables |-> "column_vars"]}

\* a caller calls query() on a client it constructed
ClientQuery ==
    /\ Len(api.calls) < MaxCalls
    /\ \E client \in api.clients, o \in Operations, resp \in ApiResponses :
          LET call == QueryCall(client, o.text, o.variables, resp)
          IN  api' = [api EXCEPT !.calls =
                         Append(@, [op |-> "query", client |-> client, text |-> o.text,
                                    variables |-> o.variables, resp |-> resp,
                                    request |-> call.request, result |-> call.result])]
    /\ UNCHANGED <<svc, eager, lazy, threads, drive, monday, events, watch>>

\* a caller calls mutate() on a client it constructed
ClientMutate ==
    /\ Len(api.calls) < MaxCalls
    /\ \E client \in api.clients, o \in Operations, resp \in ApiResponses :
          LET call == MutateCall(client, o.text, o.variables, resp)
          IN  api' = [api EXCEPT !.calls =
                         Append(@, [op |-> "mutate", client |-> client, text |-> o.text,
                                    variables |-> o.variables, resp |-> resp,
                                    request |-> call.request, result |-> call.result])]
    /\ UNCHANGED <<svc, eager, lazy, threads, drive, monday, events, watch>>

\* a consumer calls _make_request
MakeRequestCall ==
    /\ Len(api.calls) < MaxCalls
    /\ \E resp \in ApiResponses :
          LET got == GetClient(api)
          IN  api' = [api EXCEPT
                        !.default_client = IF got.raised THEN @ ELSE got.client,
                        !.calls = Append(@, [op |-> "_make_request",
                                             result |-> MakeRequest(api, resp)])]
    /\ UNCHANGED <<svc, eager, lazy, threads, drive, monday, events, watch>>

\* reset_client()
ResetClient ==
    /\ api.default_client # NoneVal
    /\ api' = [api EXCEPT !.default_client = NoneVal]
    /\ UNCHANGED <<svc, eager, lazy, threads, drive, monday, events, watch>>

NextApi ==
    \/ SetEnv
    \/ Construct
    \/ ClientQuery
    \/ ClientMutate
    \/ MakeRequestCall
    \/ ResetClient

-----------------------------------------------------------------------------
(* The traversals against a service that may never end the board *)

\* a step of fetch_board, as long as the service is asked no more than
\* MaxPosts times
LoopEagerStep ==
    /\ ~EagerFinished
    /\ eager.pc \in {"discovering", "fetching"} => eager.posts < MaxPosts
    /\ eager' = EagerStep(eager, svc)
    /\ UNCHANGED <<svc, lazy, api, threads, drive, monday, events, watch>>

\* a step of traverse_hierarchy or of the consumer that drains it
LoopLazyStep ==
    /\ lazy.pc \notin {"done", "failed"}
    /\ lazy.pc \in {"discovering", "fetching"} => lazy.posts < MaxPosts
    /\ \E inc \in BOOLEAN :
           lazy' = IF Suspended(lazy) THEN Pull(lazy, inc) ELSE LazyStep(lazy, svc)
    /\ UNCHANGED <<svc, eager, api, threads, drive, monday, events, watch>>

NextLoop ==
    \/ LoopEagerStep
    \/ LoopLazyStep

-----------------------------------------------------------------------------
(* The traversals *)

Next ==
    \/ EagerCall
    \/ EagerDiscoverReturn
    \/ EagerPageReturn
    \/ EagerAttach
    \/ LazyPull
    \/ LazyDiscoverReturn
    \/ LazyPageReturn
    \/ LazyAttach

-----------------------------------------------------------------------------
(* The services explored *)

Schemas == {<<>>, <<"A", "B">>, <<"B", "A">>, <<"A", "A">>}

GroupFields == {KeyMissing, NoneVal, "A", "B"}

SubId(i, j) == 10 * i + j

RECURSIVE Sum(_, _)
Sum(f, n) == IF n = 0 THEN 0 ELSE f[n] + Sum(f, n - 1)

\* how many subitems each of n items has: at most MaxSubitems in all, an item
\* never more than the one before it
SubitemCounts(n) ==
    {f \in [1..n -> 0..MaxSubitems] :
        Sum(f, n) <= MaxSubitems /\ \A i \in 1..n : i > 1 => f[i] <= f[i - 1]}

Item(i, group, nsub) ==
    [id |-> i, group |-> group, column_values |-> <<>>,
     subitems |-> [j \in 1..nsub |-> [id |-> SubId(i, j), column_values |-> <<>>]]]

\* the boards of n items: ids by position, the group fields drawn from fields
Boards(n, fields) ==
    {[i \in 1..n |-> Item(i, gf[i], ns[i])] :
        gf \in [1..n -> fields], ns \in SubitemCounts(n)}

Service(discovery, groups, items, cap, endCursor, failKind, failCursor) ==
    [discovery |-> discovery, board |-> "b1", groups |-> groups, columns |-> <<>>, items |-> items,
     cap |-> cap, caps |-> <<>>, endCursor |-> endCursor, failKind |-> failKind, failCursor |-> failCursor]

Caps(n) == 1..(IF n = 0 THEN 1 ELSE n)

\* services that answer every request: any schema, any board, any page cap
OkServices ==
    UNION {{Service("ok", g, b, cap, CursorNone, "none", CursorNone) :
                g \in Schemas, b \in Boards(n, GroupFields), cap \in Caps(n)} :
           n \in 0..MaxItems}

\* the last page carries "" instead of no cursor
EmptyCursorServices ==
    UNION {{Service("ok", <<"A", "B">>, b, cap, CursorEmpty, "none", CursorNone) :
                b \in Boards(n, {"A"}), cap \in Caps(n)} :
           n \in 0..MaxItems}

\* discovery fails, or finds no board
DiscoveryFailures ==
    {Service(d, <<"A", "B">>, <<>>, 1, CursorNone, "none", CursorNone) :
        d \in {"notfound"} \cup FailureKinds}

\* one page request (the first, or the one carrying a given cursor) fails, or
\* finds no board; one item a page
PageFailures ==
    UNION {{Service("ok", <<"A", "B">>, b, 1, CursorNone, k, c) :
                b \in Boards(n, {"A", KeyMissing}),
                k \in {"transport", "http", "graphql", "noboard"},
                c \in {CursorNone} \cup 2..n} :
           n \in 0..MaxItems}

PlainBoard(n) == [i \in 1..n |-> Item(i, "A", 0)]

\* every failing answer, to the first or to the second page request of a board
\* of two plain items, one item a page
AnswerFailures ==
    {Service("ok", <<"A", "B">>, PlainBoard(2), 1, CursorNone, k, c) :
        k \in FailureKinds, c \in {CursorNone, 2}}

\* the settings_str payloads: absent, null, empty, decodable (with and without
\* labels), truncated and not JSON at all
SettingsStrs ==
    {KeyMissing, NoneVal, "", "{}", "{\"hide_footer\": true}",
     "{\"labels\": {\"1\": \"Done\"}}", "{\"labels\": {\"0\": \"Stuck\"}}",
     "{\"labels\": {\"1\": \"Do", "not json"}

ColumnIds == <<"c1", "c2", "c3", "c4">>

Column(i, type, settings_str) ==
    [id |-> ColumnIds[i], title |-> ColumnIds[i], type |-> type, settings_str |-> settings_str]

\* boards of 1..MaxColumns status columns with any settings payloads, no items
SettingsServices ==
    UNION {{[Service("ok", <<"A">>, <<>>, 1, CursorNone, "none", CursorNone)
                EXCEPT !.columns = [i \in 1..n |-> Column(i, "status", ss[i])]] :
                ss \in [1..n -> SettingsStrs]} :
           n \in 1..MaxColumns}

\* the type tags tried: those of the table, and some it does not hold
TypeTags == DOMAIN RenderHintTable \cup {"", "button", "unknown"}

RawColumnValue(id, type) == [id |-> id, type |-> type, text |-> "t", value |-> KeyMissing]

\* one column c1 of any type tag; one item whose column value names no type of
\* its own and belongs to c1 or to no column of the schema
SchemaTypedServices ==
    {[Service("ok", <<"A">>,
              <<[Item(1, "A", 0) EXCEPT !.column_values = <<RawColumnValue(id, type)>>]>>,
              1, CursorNone, "none", CursorNone)
        EXCEPT !.columns = <<Column(1, tag, "{}")>>] :
        tag \in TypeTags, id \in {"c1", "c9"}, type \in {KeyMissing, NoneVal, ""}}

\* one status column c1; one item and its subitem whose column value carries a
\* type tag of its own
ValueTypedServices ==
    {[Service("ok", <<"A">>,
              <<[Item(1, "A", 1) EXCEPT
                    !.column_values = <<RawColumnValue(id, tag)>>,
                    !.subitems[1].column_values = <<RawColumnValue(id, tag)>>]>>,
              1, CursorNone, "none", CursorNone)
        EXCEPT !.columns = <<Column(1, "status", "{}")>>] :
        tag \in TypeTags \ {""}, id \in {"c1", "c9"}}

\* the value payloads: absent, null, empty, decodable, truncated, not JSON
Payloads ==
    {KeyMissing, NoneVal, "", "{}", "{\"labels\": {\"1\": \"Done\"}}",
     "{\"labels\": {\"1\": \"Do", "not json"}

PayloadColumnValue(id, value) == [id |-> id, type |-> "status", text |-> "t", value |-> value]

\* one status column c1; one item and its subitem with two column values of any
\* payloads, for two columns, for the same column twice, or for no column of
\* the schema
PayloadServices ==
    {[Service("ok", <<"A">>,
              <<[Item(1, "A", 1) EXCEPT
                    !.column_values = <<PayloadColumnValue(ids[1], p1),
                                        PayloadColumnValue(ids[2], p2)>>,
                    !.subitems[1].column_values = <<PayloadColumnValue(ids[2], p2),
                                                    PayloadColumnValue(ids[1], p1)>>]>>,
              1, CursorNone, "none", CursorNone)
        EXCEPT !.columns = <<Column(1, "status", "{}")>>] :
        ids \in {<<"c1", "c2">>, <<"c1", "c1">>, <<"c9", "c9">>},
        p1 \in Payloads, p2 \in Payloads}

\* groups A and B; items 1 and 2 in A, item 3 in B; two subitems on item 1
ScenarioBoard == <<Item(1, "A", 2), Item(2, "A", 0), Item(3, "B", 0)>>

ScenarioServices ==
    {Service("ok", <<"A", "B">>, ScenarioBoard, cap, CursorNone, "none", CursorNone) :
        cap \in 1..3}

\* the same board cut into pages of any sizes, even or not
UnevenServices ==
    {[Service("ok", <<"A", "B">>, ScenarioBoard, 1, CursorNone, "none", CursorNone)
        EXCEPT !.caps = caps] :
        caps \in [1..3 -> 1..3]}

Services ==
    OkServices \cup EmptyCursorServices \cup DiscoveryFailures \cup PageFailures
        \cup AnswerFailures \cup SettingsServices \cup SchemaTypedServices
        \cup ValueTypedServices \cup PayloadServices \cup ScenarioServices
        \cup UnevenServices

-----------------------------------------------------------------------------
(* Two callers on threads of their own *)

NoThreads == <<>>

\* the board the second caller may traverse instead: its item ids are those of
\* the first board as well
OtherService ==
    [Service("ok", <<"B">>, <<Item(1, "B", 1), Item(2, KeyMissing, 0)>>, 1,
             CursorNone, "none", CursorNone) EXCEPT !.board = "b2"]

\* the service answers by the board id of the request
ServiceOf(board) == IF board = 1 THEN svc ELSE OtherService

\* a caller about to call get_connector() and then fetch_board ("eager") or
\* list(traverse_hierarchy(board, include_subitems)) ("lazy"); n counts the
\* steps its traversal has made
ThreadStart(mode, board, inc) ==
    [pc |-> "get_client", client |-> NoneVal, constructed |-> FALSE,
     mode |-> mode, board |-> board, inc |-> inc, n |-> 0,
     t |-> IF mode = "eager" THEN EagerInit ELSE LazyInit]

\* one step of a traversal: of fetch_board, or of the generator and of the loop
\* that drains it
Step(mode, t, s, inc) ==
    IF mode = "eager" THEN EagerStep(t, s)
    ELSE IF Suspended(t) THEN Pull(t, inc)
    ELSE LazyStep(t, s)

\* RunStep with the cursor kept on the client object the connectors share
\* instead of in a local of the call
RunStepCursorOnClient(ths, i) ==
    LET th == ths[i]
        next == Step(th.mode, th.t, ServiceOf(th.board), th.inc)
    IN  [j \in DOMAIN ths |->
            IF j = i THEN [th EXCEPT !.t = next, !.n = @ + 1]
            ELSE [ths[j] EXCEPT !.t.cursor = next.cursor]]

\* thread i makes a step of its traversal: schema, tree, cursor and page are
\* locals of the call (of the generator frame), the connector and its client
\* are only read
RunStep(ths, i) ==
    LET th == ths[i]
        next == Step(th.mode, th.t, ServiceOf(th.board), th.inc)
    IN  [ths EXCEPT ![i] = [th EXCEPT !.t = next, !.n = @ + 1]]

\* get_client(): `if _default_client is None` reads the global
ThreadGetClient(i) ==
    /\ threads[i].pc = "get_client"
    /\ threads' = [threads EXCEPT ![i].pc =
                      IF api.default_client = NoneVal THEN "construct" ELSE "return"]
    /\ UNCHANGED <<svc, eager, lazy, api, drive, monday, events, watch>>

\* get_client(): `_default_client = MondayClient()`; the ValueError of a missing
\* token ends the caller before any traversal
ThreadConstruct(i) ==
    /\ threads[i].pc = "construct"
    /\ LET made == MondayClientInit(NoneVal, api.env)
       IN  IF made.raised
           THEN /\ threads' = [threads EXCEPT ![i].pc = "ended",
                                              ![i].t = Propagate(@, made.error)]
                /\ api' = api
           ELSE /\ threads' = [threads EXCEPT ![i].pc = "return", ![i].constructed = TRUE]
                /\ api' = [api EXCEPT !.default_client = made.token]
    /\ UNCHANGED <<svc, eager, lazy, drive, monday, events, watch>>

\* get_client(): `return _default_client` reads the global again;
\* get_connector() wraps the client in a connector of the caller's own
ThreadConnect(i) ==
    /\ threads[i].pc = "return"
    /\ threads' = [threads EXCEPT ![i].pc = "run", ![i].client = api.default_client]
    /\ UNCHANGED <<svc, eager, lazy, api, drive, monday, events, watch>>

\* the caller's traversal moves on
ThreadRun(i) ==
    /\ threads[i].pc = "run"
    /\ threads[i].t.pc \notin {"done", "failed"}
    /\ threads' = RunStep(threads, i)
    /\ UNCHANGED <<svc, eager, lazy, api, drive, monday, events, watch>>

NextThreads ==
    \E i \in DOMAIN threads :
        \/ ThreadGetClient(i)
        \/ ThreadConstruct(i)
        \/ ThreadConnect(i)
        \/ ThreadRun(i)
-----------------------------------------------------------------------------
(* The OneDrive project folders *)

\* A folder, developer, project or board name is the sequence of its words,
\* with the separator " - " as the word Dash: "Qualex - Artesia Tower" is
\* <<"Qualex", Dash, "Artesia", "Tower">>. None and "" are both <<>>, which
\* is what their truth value makes of them.
Dash == "-"

NoName == <<>>

UNSORTED_FOLDER == <<"_Unsorted">>

\* f"{developer} - {project}"
FolderName(developer, project) == developer \o <<Dash>> \o project

\* the folder of get_onedrive_project_path under the root
get_onedrive_project_path(developer, project) == FolderName(developer, project)

\* str.lower(), word by word
LowerWord(w) ==
    CASE w = "Qualex" -> "qualex"
      [] w = "Artesia" -> "artesia"
      [] w = "Tower" -> "tower"
      [] w = "Onni" -> "onni"
      [] w = "Public" -> "public"
      [] w = "Art" -> "art"
      [] w = "_Unsorted" -> "_unsorted"
      [] OTHER -> w

Lower(name) == [i \in DOMAIN name |-> LowerWord(name[i])]

\* `term in name`: the words of term stand together in name
Contains(term, name) ==
    \E k \in 0..(Len(name) - Len(term)) : SubSeq(name, k + 1, k + Len(term)) = term

Dashes(name) == {i \in DOMAIN name : name[i] = Dash}

\* name.split(" - ")
RECURSIVE Split(_)
Split(name) ==
    IF Dashes(name) = {} THEN <<name>>
    ELSE LET k == CHOOSE i \in Dashes(name) : \A j \in Dashes(name) : i <= j
         IN <<SubSeq(name, 1, k - 1)>> \o Split(SubSeq(name, k + 1, Len(name)))

\* " - ".join(parts)
RECURSIVE JoinDash(_)
JoinDash(parts) ==
    IF Len(parts) = 0 THEN NoName
    ELSE IF Len(parts) = 1 THEN parts[1]
    ELSE parts[1] \o <<Dash>> \o JoinDash(Tail(parts))

\* the words hold no blanks, so strip() has nothing to take off their ends
parse_board_name(name) ==
    LET parts == Split(name)
    IN IF Len(parts) >= 3
       THEN [developer |-> parts[1], project |-> parts[2],
             item_type |-> JoinDash(SubSeq(parts, 3, Len(parts)))]
       ELSE IF Len(parts) = 2
       THEN [developer |-> parts[1], project |-> parts[2], item_type |-> NoName]
       ELSE [developer |-> name, project |-> NoName, item_type |-> NoName]

\* the directories right under the root
get_project_folders(d) == {x.folder : x \in d.dirs}

\* the one folder whose name holds the term whatever the case, else None
find_project_folder(d, search_term) ==
    LET matches == {f \in get_project_folders(d) :
                        Contains(Lower(search_term), Lower(f))}
    IN IF Cardinality(matches) = 1 THEN CHOOSE f \in matches : TRUE ELSE NoName

\* mkdir(parents=True, exist_ok=True) of a directory under the root
Mkdir(d, folder, sub) ==
    [d EXCEPT !.dirs = @ \cup {[folder |-> folder, sub |-> NoName],
                               [folder |-> folder, sub |-> sub]}]

Resolved(d, folder_name, method, created) ==
    [drive |-> d,
     result |-> [path |-> folder_name, folder_name |-> folder_name,
                 method |-> method, created |-> created]]

\* resolve_project_folder in the order its statements run
resolve_project_folder(d, developer, project, monday_board_name, create_if_missing) ==
    LET folders == get_project_folders(d)
        exact_name == FolderName(developer, project)
        parts == Split(monday_board_name)
        monday_folder_name == FolderName(parts[1], parts[2])
        match == find_project_folder(d, project)
    IN IF developer # NoName /\ project # NoName /\ exact_name \in folders
       THEN Resolved(d, exact_name, "exact", FALSE)
       ELSE IF monday_board_name # NoName /\ Len(parts) >= 2
               /\ monday_folder_name \in folders
       THEN Resolved(d, monday_folder_name, "monday", FALSE)
       ELSE IF monday_board_name # NoName /\ Len(parts) >= 2 /\ create_if_missing
       THEN Resolved(Mkdir(d, monday_folder_name, NoName), monday_folder_name,
                     "created", TRUE)
       ELSE IF project # NoName /\ match # NoName
       THEN Resolved(d, match, "fuzzy", FALSE)
       ELSE Resolved(Mkdir(d, UNSORTED_FOLDER, NoName), UNSORTED_FOLDER,
                     "unsorted", FALSE)

\* the priority list of the docstring of resolve_project_folder
DocumentedMethod(d, developer, project, monday_board_name, create_if_missing) ==
    LET folders == get_project_folders(d)
        parts == Split(monday_board_name)
    IN IF developer # NoName /\ project # NoName
          /\ FolderName(developer, project) \in folders
       THEN "exact"
       ELSE IF monday_board_name # NoName /\ Len(parts) >= 2
               /\ FolderName(parts[1], parts[2]) \in folders
       THEN "monday"
       ELSE IF project # NoName /\ find_project_folder(d, project) # NoName
       THEN "fuzzy"
       ELSE IF monday_board_name # NoName /\ Len(parts) >= 2 /\ create_if_missing
       THEN "created"
       ELSE "unsorted"

\* A file name is the sequence of its parts between underscores:
\* "2024-01-05_site_plan.pdf" is <<"2024-01-05", "site", "plan.pdf">>, and
\* the empty name is <<"">>.
Dates == {"2024-01-05", "2024-02-10"}

\* the attachments pushed
Originals == {<<"plan.pdf">>, <<"Site Plan (2).pdf">>, <<"plan[1].pdf">>}

\* strftime("%Y-%m-%d_") of the date given, of the clock without one
format_date_prefix(date, now) == IF date = NoneVal THEN now ELSE date

\* f"{date_prefix}{filename}"
DatedName(date_prefix, filename) == <<date_prefix>> \o filename

\* the names of the files of one directory
NamesIn(d, folder, sub) ==
    {f.name : f \in {g \in d.files : g.folder = folder /\ g.sub = sub}}

\* one part of a name against one part of a glob pattern: the brackets of
\* "plan[1].pdf" are a character class, which only the character 1 matches
PartMatches(part, pattern) ==
    IF pattern = "plan[1].pdf" THEN part = "plan1.pdf" ELSE part = pattern

\* target_dir.glob(f"*_{original_filename}")
GlobMatches(name, original_filename) ==
    /\ Len(name) > Len(original_filename)
    /\ \A i \in DOMAIN original_filename :
           PartMatches(name[Len(name) - Len(original_filename) + i],
                       original_filename[i])

\* name.replace(original_filename, ""): what is left of an occurrence is
\* the empty part between its two underscores
RECURSIVE RemoveAll(_, _)
RemoveAll(name, original_filename) ==
    IF Len(name) < Len(original_filename) THEN name
    ELSE IF SubSeq(name, 1, Len(original_filename)) = original_filename
    THEN <<"">> \o RemoveAll(SubSeq(name, Len(original_filename) + 1, Len(name)),
                             original_filename)
    ELSE <<name[1]>> \o RemoveAll(Tail(name), original_filename)

\* rstrip("_")
RECURSIVE RStrip(_)
RStrip(name) ==
    IF Len(name) > 1 /\ name[Len(name)] = ""
    THEN RStrip(SubSeq(name, 1, Len(name) - 1))
    ELSE name

\* len(prefix) == 10 and strptime(prefix, "%Y-%m-%d") succeeds
IsDatePrefix(prefix) == Len(prefix) = 1 /\ prefix[1] \in Dates

NotFound == [exists |-> FALSE, match_type |-> NoneVal, existing_path |-> NoneVal]

\* file_already_exists on the names of the target directory; the glob
\* yields its matches in the order of the directory, so each date-prefixed
\* match is a possible answer
file_already_exists(names, original_filename, date_prefix) ==
    LET dated_filename == DatedName(date_prefix, original_filename)
        dated == {n \in names :
                     /\ GlobMatches(n, original_filename)
                     /\ IsDatePrefix(RStrip(RemoveAll(n, original_filename)))}
    IN IF dated_filename \in names
       THEN {[exists |-> TRUE, match_type |-> "exact", existing_path |-> dated_filename]}
       ELSE IF dated # {}
       THEN {[exists |-> TRUE, match_type |-> "dated", existing_path |-> n] : n \in dated}
       ELSE IF original_filename \in names
       THEN {[exists |-> TRUE, match_type |-> "original",
              existing_path |-> original_filename]}
       ELSE {NotFound}

\* the stem is lowercase letters, digits, underscores and hyphens
AlreadyClean(original_name) == original_name = <<"plan.pdf">>

\* _simple_cleanup: "(2)" goes, what is not a word character becomes an
\* underscore, runs of underscores shrink to one, those at the ends go
simple_cleanup(filename) ==
    CASE filename = <<"Site Plan (2).pdf">> -> <<"site", "plan.pdf">>
      [] filename = <<"plan[1].pdf">> -> <<"plan", "1.pdf">>
      [] OTHER -> filename

\* what the language model may answer, after the final sanitization
GeminiAnswers(original_name) ==
    CASE original_name = <<"Site Plan (2).pdf">> ->
             {<<"site", "plan.pdf">>, <<"plan.pdf">>}
      [] original_name = <<"plan[1].pdf">> -> {<<"plan.pdf">>, <<"plan", "1.pdf">>}
      [] OTHER -> {original_name}

\* generate_legible_filename: a clean name comes back as it is (lowercase
\* already), another one as the model answers or, when the request fails,
\* as _simple_cleanup leaves it
generate_legible_filename(original_name) ==
    IF AlreadyClean(original_name) THEN {original_name}
    ELSE GeminiAnswers(original_name) \cup {simple_cleanup(original_name)}

\* the clean names a push may work with; the original when the cleaning
\* is off or raises
CleanNames(original_filename, use_ai_naming) ==
    IF use_ai_naming
    THEN generate_legible_filename(original_filename) \cup {original_filename}
    ELSE {original_filename}

\* shutil.copy2 into the directory: a file of that name is overwritten
Copy(d, folder, sub, name) ==
    [d EXCEPT !.files = @ \cup {[folder |-> folder, sub |-> sub, name |-> name]}]

\* push_attachment_to_project; a push picks its clean name, the answer of
\* the duplicate check and whether the copy goes through
Pushed(d, clean_filename, result) ==
    [drive |-> d, clean_filename |-> clean_filename, result |-> result]

push_attachment_to_project(d, source_exists, original_filename, developer, project, subfolder, date_prefix, force, clean_filename, check, copy_ok) ==
    LET folder == get_onedrive_project_path(developer, project)
        made == Mkdir(d, folder, subfolder)
        dated_filename == DatedName(date_prefix, clean_filename)
    IN IF ~source_exists
       THEN Pushed(d, clean_filename, [success |-> FALSE, error |-> "Source file not found"])
       ELSE IF ~force /\ check.exists
       THEN Pushed(made, clean_filename, [success |-> FALSE, error |-> "File already exists",
                          existing_path |-> check.existing_path,
                          match_type |-> check.match_type, skipped |-> TRUE])
       ELSE IF copy_ok
       THEN Pushed(Copy(made, folder, subfolder, dated_filename), clean_filename,
                   [success |-> TRUE, target |-> [folder |-> folder, sub |-> subfolder,
                                                  name |-> dated_filename],
                    filename |-> dated_filename,
                    original_filename |-> original_filename,
                    renamed |-> original_filename # clean_filename])
       ELSE Pushed(made, clean_filename, [success |-> FALSE, error |-> "copy failed"])

\* the answers the duplicate check of a push can give
Checks(d, developer, project, subfolder, clean_filename, date_prefix) ==
    file_already_exists(NamesIn(d, get_onedrive_project_path(developer, project),
                                subfolder),
                        clean_filename, date_prefix)

\* every way a push can go
PushOutcomes(d, source_exists, original_filename, developer, project, subfolder, date_prefix, force, use_ai_naming) ==
    UNION {{push_attachment_to_project(d, source_exists, original_filename,
                                       developer, project, subfolder, date_prefix,
                                       force, clean_filename, check, copy_ok) :
                check \in Checks(d, developer, project, subfolder, clean_filename,
                                 date_prefix),
                copy_ok \in BOOLEAN} :
           clean_filename \in CleanNames(original_filename, use_ai_naming)}

\* PushEach leaving the loop at the first attachment that is not pushed
RECURSIVE PushEachUntilFailure(_, _, _, _, _, _)
PushEachUntilFailure(d, attachments, developer, project, date_prefix, results) ==
    IF attachments = <<>> \/ (results # <<>> /\ ~results[Len(results)].success)
    THEN {[drive |-> d, results |-> results]}
    ELSE LET attachment == Head(attachments)
         IN UNION {PushEachUntilFailure(o.drive, Tail(attachments), developer, project,
                                        date_prefix, Append(results, o.result)) :
                   o \in PushOutcomes(d, attachment.exists, attachment.path,
                                      developer, project, attachment.subfolder,
                                      date_prefix, FALSE, TRUE)}

\* the loop of push_multiple_attachments, one attachment after the other
RECURSIVE PushEach(_, _, _, _, _, _)
PushEach(d, attachments, developer, project, date_prefix, results) ==
    IF attachments = <<>> THEN {[drive |-> d, results |-> results]}
    ELSE LET attachment == Head(attachments)
         IN UNION {PushEach(o.drive, Tail(attachments), developer, project,
                            date_prefix, Append(results, o.result)) :
                   o \in PushOutcomes(d, attachment.exists, attachment.path,
                                      developer, project, attachment.subfolder,
                                      date_prefix, FALSE, TRUE)}

IsSuccess(result) == result.success

IsSkipped(result) == ~result.success /\ "skipped" \in DOMAIN result

IsError(result) == ~result.success /\ "skipped" \notin DOMAIN result

push_multiple_attachments(d, attachments, developer, project, date_prefix) ==
    {[drive |-> o.drive,
      result |-> [total |-> Len(attachments),
                  pushed |-> Cardinality({i \in DOMAIN o.results :
                                              IsSuccess(o.results[i])}),
                  skipped |-> Cardinality({i \in DOMAIN o.results :
                                               IsSkipped(o.results[i])}),
                  errors |-> Cardinality({i \in DOMAIN o.results :
                                              IsError(o.results[i])}),
                  details |-> o.results]] :
     o \in PushEach(d, attachments, developer, project, date_prefix, <<>>)}

\* monday_api.search_boards and find_board_by_project on the answer of
\* Monday.com: the first board whose name holds the project name
BoardOf(name) ==
    [name |-> name, developer |-> parse_board_name(name).developer,
     project |-> parse_board_name(name).project]

find_board_by_project(answer, project_name) ==
    IF "error" \in DOMAIN answer THEN answer
    ELSE LET Matches(name) == Contains(Lower(project_name), Lower(name))
             matched == SelectSeq(answer.boards, Matches)
         IN IF matched = <<>> THEN [error |-> "No board found"]
            ELSE [board |-> BoardOf(matched[1])]

\* the route /api/onedrive/push
push_attachments(d, request, answer, now) ==
    LET monday_result == find_board_by_project(answer, request.project)
        found == request.project # NoName /\ "board" \in DOMAIN monday_result
        monday_board_name == IF found THEN monday_result.board.name ELSE NoName
        resolved_developer ==
            IF found THEN monday_result.board.developer ELSE request.developer
        resolved_project ==
            IF found THEN monday_result.board.project ELSE request.project
        folder_result == resolve_project_folder(d, resolved_developer, resolved_project,
                                                monday_board_name, TRUE)
    IN IF request.email_date \notin {NoneVal, ""} /\ request.email_date \notin Dates
       THEN {[drive |-> d, response |-> [status |-> 400]]}
       ELSE {[drive |-> o.drive,
              response |-> [status |-> 200, result |-> o.result,
                            folder |-> folder_result.result]] :
             o \in push_multiple_attachments(folder_result.drive, request.attachments,
                                             resolved_developer, resolved_project,
                                             format_date_prefix(
                                                 IF request.email_date = ""
                                                 THEN NoneVal ELSE request.email_date,
                                                 now))}

NoDrive == [dirs |-> {}, files |-> {}, calls |-> <<>>]

Logged(d, call) == [d EXCEPT !.calls = Append(d.calls, call)]

\* the clock of a call
Clock == {"2024-02-10"}

Qualex == <<"Qualex">>

Artesia == <<"Artesia">>

Contracts == <<"Contracts">>

BoardNames ==
    {NoName, <<"Qualex", Dash, "Artesia", Dash, "Public", "Art">>,
     <<"Qualex", Dash, "Artesia", "Tower">>, <<"Artesia">>}

ResolveProjectFolder ==
    /\ Len(drive.calls) < MaxCalls
    /\ \E developer \in {Qualex, NoName}, project \in {Artesia, <<"artesia">>, NoName},
          monday_board_name \in BoardNames, create_if_missing \in BOOLEAN :
           LET o == resolve_project_folder(drive, developer, project,
                                           monday_board_name, create_if_missing)
           IN drive' = Logged(o.drive,
                  [op |-> "resolve", developer |-> developer, project |-> project,
                   monday_board_name |-> monday_board_name,
                   create_if_missing |-> create_if_missing,
                   before |-> [drive EXCEPT !.calls = <<>>], result |-> o.result])
    /\ UNCHANGED <<svc, eager, lazy, api, threads, monday, events, watch>>

\* the direct pushes: a missing source, and each attachment with or without
\* a date, forced or not, cleaned or not
PushInputs ==
    {[source_exists |-> FALSE, path |-> <<"plan.pdf">>, subfolder |-> NoName,
      email_date |-> NoneVal, force |-> FALSE, use_ai_naming |-> TRUE]}
    \cup [source_exists : {TRUE}, path : Originals, subfolder : {NoName},
          email_date : {NoneVal, "2024-01-05"}, force : BOOLEAN,
          use_ai_naming : BOOLEAN]
    \cup {[source_exists |-> TRUE, path |-> <<"plan.pdf">>, subfolder |-> Contracts,
           email_date |-> "2024-01-05", force |-> FALSE, use_ai_naming |-> FALSE]}

PushAttachment ==
    /\ Len(drive.calls) < MaxCalls
    /\ \E in \in PushInputs, now \in Clock :
           \E o \in PushOutcomes(drive, in.source_exists, in.path, Qualex, Artesia,
                                 in.subfolder, format_date_prefix(in.email_date, now),
                                 in.force, in.use_ai_naming) :
               drive' = Logged(o.drive,
                   [op |-> "push", source_exists |-> in.source_exists,
                    path |-> in.path, developer |-> Qualex, project |-> Artesia,
                    subfolder |-> in.subfolder,
                    date_prefix |-> format_date_prefix(in.email_date, now),
                    force |-> in.force, use_ai_naming |-> in.use_ai_naming,
                    clean_filename |-> o.clean_filename,
                    before |-> NamesIn(drive, FolderName(Qualex, Artesia), in.subfolder),
                    after |-> NamesIn(o.drive, FolderName(Qualex, Artesia), in.subfolder),
                    result |-> o.result])
    /\ UNCHANGED <<svc, eager, lazy, api, threads, monday, events, watch>>

Attachment(path, exists, subfolder) ==
    [path |-> path, exists |-> exists, subfolder |-> subfolder]

AttachmentLists ==
    {<<>>,
     <<Attachment(<<"plan.pdf">>, TRUE, NoName)>>,
     <<Attachment(<<"plan.pdf">>, FALSE, NoName)>>,
     <<Attachment(<<"Site Plan (2).pdf">>, TRUE, Contracts)>>,
     <<Attachment(<<"plan.pdf">>, TRUE, NoName),
       Attachment(<<"plan[1].pdf">>, TRUE, NoName)>>}

Requests ==
    [developer : {Qualex}, project : {Artesia}, attachments : AttachmentLists,
     email_date : {"2024-01-05"}]
    \cup [developer : {Qualex}, project : {Artesia, NoName},
          attachments : {<<Attachment(<<"plan.pdf">>, TRUE, NoName)>>},
          email_date : {NoneVal, "", "05/01/2024"}]

MondayAnswers ==
    {[error |-> "request failed"], [boards |-> <<>>],
     [boards |-> <<<<"Qualex", Dash, "Artesia", Dash, "Public", "Art">>>>],
     [boards |-> <<<<"Onni", Dash, "Artesia", "Tower", Dash, "Public", "Art">>,
                   <<"Qualex", Dash, "Artesia", Dash, "Public", "Art">>>>],
     [boards |-> <<<<"Artesia">>>>]}

PushAttachments ==
    /\ Len(drive.calls) < MaxCalls
    /\ \E request \in Requests, answer \in MondayAnswers, now \in Clock :
           \E o \in push_attachments(drive, request, answer, now) :
               drive' = Logged(o.drive,
                   [op |-> "route", request |-> request, answer |-> answer,
                    response |-> o.response])
    /\ UNCHANGED <<svc, eager, lazy, api, threads, monday, events, watch>>

\* push_multiple_attachments called on its own; the log holds the call made last
PushLists ==
    {<<>>,
     <<Attachment(<<"plan.pdf">>, FALSE, NoName)>>,
     <<Attachment(<<"plan.pdf">>, TRUE, NoName),
       Attachment(<<"plan.pdf">>, TRUE, NoName)>>,
     <<Attachment(<<"plan.pdf">>, FALSE, NoName),
       Attachment(<<"plan.pdf">>, TRUE, NoName)>>,
     <<Attachment(<<"Site Plan (2).pdf">>, TRUE, Contracts),
       Attachment(<<"plan.pdf">>, FALSE, Contracts),
       Attachment(<<"plan[1].pdf">>, TRUE, NoName)>>}

PushMultipleAttachments ==
    \E attachments \in PushLists, email_date \in {NoneVal}, now \in Clock :
        \E o \in push_multiple_attachments(drive, attachments, Qualex, Artesia,
                                           format_date_prefix(email_date, now)) :
            /\ drive' = [o.drive EXCEPT !.calls =
                   <<[op |-> "push_multiple", attachments |-> attachments,
                      developer |-> Qualex, project |-> Artesia,
                      date_prefix |-> format_date_prefix(email_date, now),
                      before |-> [drive EXCEPT !.calls = <<>>],
                      result |-> o.result]>>]
            /\ UNCHANGED <<svc, eager, lazy, api, threads, monday, events, watch>>

NextPush == PushMultipleAttachments

NextDrive ==
    \/ ResolveProjectFolder
    \/ PushAttachment
    \/ PushAttachments

-----------------------------------------------------------------------------
(* monday_api.py: the operations built on _make_request *)

NoOperation == [op |-> "none"]

\* MakeRequestSent with a failed request posted a second time
MakeRequestSentTwice(a, text, variables, resp) ==
    LET got == GetClient(a)
    IN  [api |-> IF got.raised THEN a ELSE [a EXCEPT !.default_client = got.client],
         posted |-> IF got.raised THEN <<>>
                    ELSE [i \in 1..(IF Query(resp).raised THEN 2 ELSE 1) |->
                              Request(got.client, text, variables)],
         result |-> MakeRequest(a, resp)]

\* _make_request(query, variables) when requests.post gives resp: the default
\* client afterwards, the requests posted and the dict returned
MakeRequestSent(a, text, variables, resp) ==
    LET got == GetClient(a)
    IN  [api |-> IF got.raised THEN a ELSE [a EXCEPT !.default_client = got.client],
         posted |-> IF got.raised THEN <<>>
                    ELSE [i \in 1..Query(resp).posts |-> Request(got.client, text, variables)],
         result |-> MakeRequest(a, resp)]

\* answer to the query of get_board_items: the board with its name, its
\* columns and the first page of its items
BoardItemsResponse(s, limit) ==
    LET page == ItemsResponse(s, CursorNone, limit)
    IN  IF s.discovery \in FailureKinds THEN HttpFailure(s.discovery)
        ELSE IF s.discovery = "notfound" THEN HttpOk([boards |-> <<>>])
        ELSE IF page.exc \/ page.status_code # 200 \/ "data" \notin DOMAIN page.json
        THEN page
        ELSE IF BoardsOf(page.json.data) = <<>> THEN page
        ELSE HttpOk([boards |-> <<[name |-> s.board, columns |-> s.columns,
                                   items_page |-> page.json.data.boards[1].items_page]>>])

\* the cells one column value puts in a row: the text under the column's
\* title, the raw value and the render hint
RowCell(cv, columns) ==
    LET k == ColumnMap(columns, cv.id)
    IN  [title |-> IF k # 0 THEN columns[k].title ELSE cv.id,
         text |-> cv.text, value |-> cv.value,
         render_hint |-> IF k # 0 THEN RenderHint(columns[k].type) ELSE "text"]

\* item.get("group", {}).get("title", ""); a group is named by its id
RowGroup(item) == IF item.group = KeyMissing THEN "" ELSE item.group

Row(item, columns) ==
    [id |-> item.id, group |-> RowGroup(item),
     cells |-> [i \in DOMAIN item.column_values |-> RowCell(item.column_values[i], columns)]]

\* get_board_items after _make_request returned result
BoardItems(result, board_id) ==
    IF "error" \in DOMAIN result THEN [raised |-> FALSE, value |-> result]
    ELSE IF BoardsOf(result.data) = <<>>
    THEN [raised |-> FALSE, value |-> [error |-> [fmt |-> "Board {board_id} not found"]]]
    ELSE LET board == result.data.boards[1]
             items == board.items_page.items
         IN  IF \E i \in DOMAIN items : GroupLookupRaises(items[i])
             THEN [raised |-> TRUE,
                   error |-> [type |-> "AttributeError", kind |-> "nullgroup"]]
             ELSE [raised |-> FALSE,
                   value |-> [board_id |-> board_id, board_name |-> board.name,
                              columns |-> [i \in DOMAIN board.columns |->
                                  [id |-> board.columns[i].id,
                                   title |-> board.columns[i].title,
                                   type |-> board.columns[i].type,
                                   render_hint |-> RenderHint(board.columns[i].type)]],
                              items |-> [i \in DOMAIN items |-> Row(items[i], board.columns)],
                              count |-> Len(items),
                              cursor |-> board.items_page.cursor]]

\* the limits callers ask for
Limits == {1, 2, PageSize}

\* a caller calls get_board_items(board_id, limit)
GetBoardItems ==
    /\ \E limit \in Limits :
          LET sent == MakeRequestSent(api, "query { boards { items_page } }",
                                      "board_limit_vars", BoardItemsResponse(svc, limit))
          IN  /\ api' = sent.api
              /\ monday' = [op |-> "get_board_items", board_id |-> svc.board,
                            limit |-> limit, posted |-> sent.posted,
                            result |-> BoardItems(sent.result, svc.board)]
    /\ UNCHANGED <<svc, eager, lazy, threads, drive, events, watch>>

\* the variables of create_item, named by their keys: groupId and
\* columnValues are set only when the argument is truthy
CreateItemVariables(group_id, column_values) ==
    IF group_id \notin {NoneVal, ""}
    THEN IF column_values \notin {"none", "empty"}
         THEN "boardId,itemName,groupId,columnValues"
         ELSE "boardId,itemName,groupId"
    ELSE IF column_values \notin {"none", "empty"}
         THEN "boardId,itemName,columnValues"
         ELSE "boardId,itemName"

\* result.get("data", {}).get(field, {}), with the keys id and name read by get
Mutated(result, field) ==
    IF field \in DOMAIN result.data THEN result.data[field] ELSE <<>>

Get(dict, key) == IF key \in DOMAIN dict THEN dict[key] ELSE NoneVal

\* create_item after _make_request returned result
CreatedItem(result) ==
    IF "error" \in DOMAIN result THEN result
    ELSE [success |-> TRUE, item_id |-> Get(Mutated(result, "create_item"), "id"),
          item_name |-> Get(Mutated(result, "create_item"), "name")]

\* update_item after _make_request returned result
UpdatedItem(result) ==
    IF "error" \in DOMAIN result THEN result
    ELSE [success |-> TRUE,
          item_id |-> Get(Mutated(result, "change_multiple_column_values"), "id"),
          item_name |-> Get(Mutated(result, "change_multiple_column_values"), "name")]

\* add_update_to_item after _make_request returned result
AddedUpdate(result) ==
    IF "error" \in DOMAIN result THEN result
    ELSE [success |-> TRUE, update_id |-> Get(Mutated(result, "create_update"), "id")]

\* what requests.post gives to a mutation: the node asked for, a body
\* without it, or a failure
CreateItemResponses ==
    {HttpOk([create_item |-> [id |-> "i1", name |-> "task"]]), HttpOk(<<>>),
     HttpFailure("nodata"), HttpFailure("transport"), HttpFailure("http"),
     HttpFailure("graphql_two")}

UpdateItemResponses ==
    {HttpOk([change_multiple_column_values |-> [id |-> "i1", name |-> "task"]]),
     HttpOk(<<>>), HttpFailure("transport"), HttpFailure("http"),
     HttpFailure("graphql_two")}

CreateUpdateResponses ==
    {HttpOk([create_update |-> [id |-> "u1"]]), HttpOk(<<>>),
     HttpFailure("transport"), HttpFailure("http"), HttpFailure("graphql_two")}

\* a caller calls create_item(board_id, name, column_values, group_id)
CreateItem ==
    /\ \E group_id \in {NoneVal, "", "g1"}, column_values \in {"none", "empty", "status"},
          resp \in CreateItemResponses :
          LET sent == MakeRequestSent(api, "mutation { create_item }",
                                      CreateItemVariables(group_id, column_values), resp)
          IN  /\ api' = sent.api
              /\ monday' = [op |-> "create_item", client |-> GetClient(api),
                            group_id |-> group_id, column_values |-> column_values,
                            posted |-> sent.posted, made |-> sent.result,
                            result |-> CreatedItem(sent.result)]
    /\ UNCHANGED <<svc, eager, lazy, threads, drive, events, watch>>

\* a caller calls update_item(board_id, item_id, column_values)
UpdateItem ==
    /\ \E resp \in UpdateItemResponses :
          LET sent == MakeRequestSent(api, "mutation { change_multiple_column_values }",
                                      "boardId,itemId,columnValues", resp)
          IN  /\ api' = sent.api
              /\ monday' = [op |-> "update_item", client |-> GetClient(api),
                            posted |-> sent.posted, made |-> sent.result,
                            result |-> UpdatedItem(sent.result)]
    /\ UNCHANGED <<svc, eager, lazy, threads, drive, events, watch>>

\* a caller calls add_update_to_item(item_id, body)
AddUpdateToItem ==
    /\ \E resp \in CreateUpdateResponses :
          LET sent == MakeRequestSent(api, "mutation { create_update }", "itemId,body", resp)
          IN  /\ api' = sent.api
              /\ monday' = [op |-> "add_update_to_item", client |-> GetClient(api),
                            posted |-> sent.posted, made |-> sent.result,
                            result |-> AddedUpdate(sent.result)]
    /\ UNCHANGED <<svc, eager, lazy, threads, drive, events, watch>>

\* the boards Monday.com answers a search with: id, name and columns
Board(id, name, columns) == [id |-> id, name |-> name, columns |-> columns]

StatusAndDate == <<[id |-> "text1", type |-> "text"], [id |-> "status1", type |-> "status"],
                   [id |-> "status2", type |-> "status"], [id |-> "date1", type |-> "date"]>>

BoardLists ==
    {<<>>,
     <<Board("b1", <<"Qualex", Dash, "Artesia", Dash, "Public", "Art">>, StatusAndDate)>>,
     <<Board("b0", <<"Onni", Dash, "Artesia", "Tower">>, <<>>),
       Board("b2", <<"qualex", Dash, "artesia">>, <<>>),
       Board("b1", <<"Qualex", Dash, "Artesia", Dash, "Public", "Art">>, StatusAndDate)>>,
     <<Board("b0", <<"Onni", Dash, "Artesia", "Tower">>, <<>>)>>}

SearchResponses ==
    {HttpOk([boards |-> boards]) : boards \in BoardLists}
    \cup {HttpOk(<<>>), HttpFailure("graphql_two")}

\* search_boards after _make_request returned result: the boards whose
\* name holds the search term, the first `limit` of them
SearchedBoards(result, search_term, limit) ==
    IF "error" \in DOMAIN result THEN result
    ELSE LET boards == IF "boards" \in DOMAIN result.data THEN result.data.boards ELSE <<>>
             Matches(board) == Contains(Lower(search_term), Lower(board.name))
             matched == SelectSeq(boards, Matches)
         IN [boards |-> SubSeq(matched, 1, IF Len(matched) < limit THEN Len(matched)
                                           ELSE limit),
             total_matched |-> Len(matched)]

\* the first column of the type, as the loop with its break finds it
FirstColumn(board, type) ==
    LET found == SelectSeq(board.columns, LAMBDA col : col.type = type)
    IN IF found = <<>> THEN <<>> ELSE <<found[1].id>>

\* the column_values dict of create_task_from_email, named by its keys
TaskColumnValues(board, due_date, status) ==
    (IF status \notin {NoneVal, ""} THEN FirstColumn(board, "status") ELSE <<>>)
    \o (IF due_date \notin {NoneVal, ""} THEN FirstColumn(board, "date") ELSE <<>>)

SearchText == "query { boards }"

CreateItemText == "mutation { create_item }"

CreateUpdateText == "mutation { create_update }"

Task(a, posted, steps, result) ==
    [api |-> a, posted |-> posted, steps |-> steps, result |-> result]

\* UpdateWanted for every created item, described or not
UpdateAlways(description, result) == TRUE

\* `if description and result.get("success")`
UpdateWanted(description, result) ==
    description # "" /\ Get(result, "success") = TRUE

\* create_task_from_email when requests.post gives found, made and added to
\* its three requests: the default client afterwards, the requests posted,
\* the calls made with what each returned, and the dict returned
create_task_from_email(a, developer, project, description, due_date, status, found, made, added) ==
    LET search_term == FolderName(developer, project)
        searched == MakeRequestSent(a, SearchText, "limit", found)
        board_result == SearchedBoards(searched.result, search_term, 5)
        board == board_result.boards[1]
        column_values == TaskColumnValues(board, due_date, status)
        created == MakeRequestSent(searched.api, CreateItemText,
                       CreateItemVariables(NoneVal, IF column_values = <<>> THEN "none"
                                                    ELSE "columnValues"), made)
        result == CreatedItem(created.result)
        updated == MakeRequestSent(created.api, CreateUpdateText, "itemId,body", added)
        search_boards == [call |-> "search_boards", result |-> board_result]
        create_item == [call |-> "create_item", board_id |-> board.id,
                        column_values |-> column_values, result |-> result]
        add_update_to_item == [call |-> "add_update_to_item", item_id |-> result.item_id,
                               result |-> AddedUpdate(updated.result)]
    IN IF "error" \in DOMAIN board_result
       THEN Task(searched.api, searched.posted, <<search_boards>>, board_result)
       ELSE IF board_result.boards = <<>>
       THEN Task(searched.api, searched.posted, <<search_boards>>,
                 [error |-> "No board found"])
       ELSE IF "error" \in DOMAIN result
       THEN Task(created.api, searched.posted \o created.posted,
                 <<search_boards, create_item>>, result)
       ELSE LET returned == [success |-> TRUE, board_name |-> board.name,
                             item_id |-> result.item_id, item_name |-> result.item_name]
            IN IF UpdateWanted(description, result)
               THEN Task(updated.api,
                         searched.posted \o created.posted \o updated.posted,
                         <<search_boards, create_item, add_update_to_item>>, returned)
               ELSE Task(created.api, searched.posted \o created.posted,
                         <<search_boards, create_item>>, returned)

\* what requests.post gives to the two mutations of a task
TaskCreateResponses ==
    {HttpOk([create_item |-> [id |-> "i1", name |-> "task"]]), HttpOk(<<>>),
     HttpFailure("transport")}

TaskUpdateResponses ==
    {HttpOk([create_update |-> [id |-> "u1"]]), HttpFailure("transport"),
     HttpFailure("graphql_two")}

TaskColumns ==
    {[due_date |-> NoneVal, status |-> NoneVal], [due_date |-> "2026-01-15", status |-> ""],
     [due_date |-> "2026-01-15", status |-> "Done"]}

\* a caller calls create_task_from_email(developer, project, task_name,
\* description, due_date, status)
CreateTaskFromEmail ==
    /\ \E description \in {"", "see the email"}, columns \in TaskColumns,
          found \in SearchResponses, made \in TaskCreateResponses,
          added \in TaskUpdateResponses :
          LET due_date == columns.due_date
              status == columns.status
              task == create_task_from_email(api, Qualex, Artesia, description, due_date,
                                             status, found, made, added)
          IN  /\ api' = task.api
              /\ monday' = [op |-> "create_task_from_email", client |-> GetClient(api),
                            description |-> description, due_date |-> due_date,
                            status |-> status, posted |-> task.posted,
                            steps |-> task.steps, result |-> task.result]
    /\ UNCHANGED <<svc, eager, lazy, threads, drive, events, watch>>

NextTask ==
    \/ SetEnv
    \/ ResetClient
    \/ CreateTaskFromEmail

-----------------------------------------------------------------------------
(* email_parser_deprecated.py: the new-mail handlers and watch_inbox *)

\* the handler of the class OutlookEventHandler and the one of the events
\* class of watch_outlook_events, each with a processed_ids of its own
Handlers == {"OnNewMailEx", "_handle_new_mail"}

\* an entry_ids string is the sequence of its characters
Comma == ","

Space == " "

EntryIds ==
    {<<"a">>, <<"b">>, <<"a", Comma, "b">>, <<"a", Comma, Space, "a">>,
     <<"b", Comma>>, <<Space, "a", Space>>}

\* entry_ids.split(",")
RECURSIVE SplitIds(_)
SplitIds(entry_ids) ==
    IF \A i \in DOMAIN entry_ids : entry_ids[i] # Comma THEN <<entry_ids>>
    ELSE LET i == CHOOSE i \in DOMAIN entry_ids :
                      /\ entry_ids[i] = Comma
                      /\ \A j \in 1..(i - 1) : entry_ids[j] # Comma
         IN <<SubSeq(entry_ids, 1, i - 1)>>
            \o SplitIds(SubSeq(entry_ids, i + 1, Len(entry_ids)))

\* entry_id.strip()
RECURSIVE StripId(_)
StripId(entry_id) ==
    IF entry_id # <<>> /\ Head(entry_id) = Space THEN StripId(Tail(entry_id))
    ELSE IF entry_id # <<>> /\ entry_id[Len(entry_id)] = Space
    THEN StripId(SubSeq(entry_id, 1, Len(entry_id) - 1))
    ELSE entry_id

\* the entry ids the events name
NamedIds == UNION {{StripId(SplitIds(e)[i]) : i \in DOMAIN SplitIds(e)} : e \in EntryIds}

\* namespace.GetItemFromID(entry_id) and process_email(item, output_base):
\* a metadata dict, None, or an exception; no item has the empty id
Attempts(entry_id) ==
    IF entry_id = <<>> THEN {"raised"} ELSE {"processed", "failed", "raised"}

\* HandleEach with the id recorded before the email is processed
RECURSIVE HandleEachRecordedFirst(_, _, _)
HandleEachRecordedFirst(ids, processed_ids, steps) ==
    IF ids = <<>> THEN {[processed_ids |-> processed_ids, steps |-> steps]}
    ELSE LET entry_id == StripId(Head(ids))
         IN IF entry_id \in processed_ids
            THEN HandleEachRecordedFirst(Tail(ids), processed_ids,
                                         Append(steps, "skipped"))
            ELSE UNION {HandleEachRecordedFirst(Tail(ids), processed_ids \cup {entry_id},
                                                Append(steps, result)) :
                        result \in Attempts(entry_id)}

\* the loop over the ids of one event: what becomes of each id in turn, and
\* processed_ids afterwards
RECURSIVE HandleEach(_, _, _)
HandleEach(ids, processed_ids, steps) ==
    IF ids = <<>> THEN {[processed_ids |-> processed_ids, steps |-> steps]}
    ELSE LET entry_id == StripId(Head(ids))
         IN IF entry_id \in processed_ids
            THEN HandleEach(Tail(ids), processed_ids, Append(steps, "skipped"))
            ELSE UNION {HandleEach(Tail(ids),
                                   IF result = "processed"
                                   THEN processed_ids \cup {entry_id}
                                   ELSE processed_ids,
                                   Append(steps, result)) :
                        result \in Attempts(entry_id)}

\* OnNewMailEx and _handle_new_mail: when Dispatch or GetNamespace raises,
\* the outer except ends the handler before the loop
handle_new_mail(processed_ids, entry_ids, dispatched) ==
    IF ~dispatched THEN {[processed_ids |-> processed_ids, steps |-> <<>>]}
    ELSE HandleEach(SplitIds(entry_ids), processed_ids, <<>>)

\* processed_ids of each handler, how often each id was processed with
\* success and which ids failed under each handler, the event handled last
\* and the number of events so far
NoEvents ==
    [processed_ids |-> [h \in Handlers |-> {}],
     succeeded |-> [h \in Handlers |-> [id \in NamedIds |-> 0]],
     failed |-> [h \in Handlers |-> {}],
     last |-> [handler |-> "none"],
     count |-> 0]

\* events after handler h has handled one more event
AfterNewMail(h) ==
    UNION {{LET ids == SplitIds(entry_ids)
                Times(id) == Cardinality({i \in DOMAIN o.steps :
                                 StripId(ids[i]) = id /\ o.steps[i] = "processed"})
            IN [processed_ids |-> [events.processed_ids EXCEPT ![h] = o.processed_ids],
                succeeded |-> [events.succeeded EXCEPT ![h] =
                                   [id \in NamedIds |-> @[id] + Times(id)]],
                failed |-> [events.failed EXCEPT ![h] =
                                @ \cup {StripId(ids[i]) : i \in
                                           {i \in DOMAIN o.steps :
                                                o.steps[i] \in {"failed", "raised"}}}],
                last |-> [handler |-> h, entry_ids |-> entry_ids,
                          dispatched |-> dispatched,
                          before |-> events.processed_ids[h], steps |-> o.steps],
                count |-> events.count + 1] :
            o \in handle_new_mail(events.processed_ids[h], entry_ids, dispatched)} :
           entry_ids \in EntryIds, dispatched \in BOOLEAN}

OnNewMailEx ==
    /\ events.count < MaxEvents
    /\ events' \in AfterNewMail("OnNewMailEx")
    /\ UNCHANGED <<svc, eager, lazy, api, threads, drive, monday, watch>>

HandleNewMail ==
    /\ events.count < MaxEvents
    /\ events' \in AfterNewMail("_handle_new_mail")
    /\ UNCHANGED <<svc, eager, lazy, api, threads, drive, monday, watch>>

NextEvents == OnNewMailEx \/ HandleNewMail

\* watch_inbox. The clock counts the steps of the watcher and the arrivals,
\* so no two of them share a time: the watch started at time 1, when
\* last_check was taken, and the inbox held one email received at time 0.
\* pc is "top" at the head of the while loop, "scan" in the for loop over
\* inbox.Items with pos the item it comes to next, "reset" between the end
\* of the for loop and `last_check = datetime.now()`, "sleep" in time.sleep.
\* live tells whether the iteration sees the emails that arrive while it
\* runs or the `seen` items the collection held when it started; calls are
\* the calls of process_email with the poll that made them, and failed
\* tells whether anything has raised or process_email has returned None.
Email(id, received) == [id |-> id, received |-> received]

NewEmails == <<"m1", "m2">>

NoWatch ==
    [pc |-> "top", now |-> 2, last_check |-> 1, inbox |-> <<Email("old", 0)>>,
     pos |-> 0, seen |-> 0, live |-> TRUE, scan_start |-> 0, poll |-> 0, calls |-> <<>>,
     failed |-> FALSE]

\* the next reading of the clock
Later(w) == [w EXCEPT !.now = @ + 1]

\* an email is delivered to the inbox, received now
Arrive ==
    /\ watch.now < MaxTime
    /\ Len(watch.inbox) <= Len(NewEmails)
    /\ watch' = Later([watch EXCEPT !.inbox =
                           Append(@, Email(NewEmails[Len(watch.inbox)], watch.now))])
    /\ UNCHANGED <<svc, eager, lazy, api, threads, drive, monday, events>>

\* inbox = get_outlook_inbox() and the start of the for loop; when Outlook
\* cannot be reached the outer except sleeps and last_check stays
GetOutlookInbox ==
    /\ watch.now < MaxTime
    /\ watch.pc = "top"
    /\ \/ \E live \in BOOLEAN :
              watch' = Later([watch EXCEPT !.pc = "scan", !.pos = 1,
                                           !.seen = Len(watch.inbox), !.live = live,
                                           !.scan_start = watch.now, !.poll = @ + 1])
       \/ watch' = Later([watch EXCEPT !.pc = "sleep", !.failed = TRUE])
    /\ UNCHANGED <<svc, eager, lazy, api, threads, drive, monday, events>>

\* the items the iteration still has to come to
ItemsLeft(w) == w.pos <= (IF w.live THEN Len(w.inbox) ELSE w.seen)

\* one pass of the for loop: an item received after last_check is handed to
\* process_email, which returns the metadata or None; reading the item may
\* raise, and the inner except goes on to the next item
ScanItem ==
    /\ watch.now < MaxTime
    /\ watch.pc = "scan"
    /\ ItemsLeft(watch)
    /\ LET item == watch.inbox[watch.pos]
           next == [watch EXCEPT !.pos = @ + 1]
       IN \/ /\ item.received > watch.last_check
             /\ \E result \in {"metadata", NoneVal} :
                    watch' = Later([next EXCEPT !.calls =
                                 Append(@, [id |-> item.id, poll |-> watch.poll,
                                            result |-> result]),
                               !.failed = @ \/ result = NoneVal])
          \/ /\ item.received <= watch.last_check
             /\ watch' = Later(next)
          \/ watch' = Later([next EXCEPT !.failed = TRUE])
    /\ UNCHANGED <<svc, eager, lazy, api, threads, drive, monday, events>>

\* the iteration over inbox.Items raises between two items: the outer
\* except prints the error and sleeps, and last_check stays
ItemsRaises ==
    /\ watch.now < MaxTime
    /\ watch.pc = "scan"
    /\ watch' = Later([watch EXCEPT !.pc = "sleep", !.failed = TRUE])
    /\ UNCHANGED <<svc, eager, lazy, api, threads, drive, monday, events>>

\* the for loop has come to the end of the items
EndScan ==
    /\ watch.now < MaxTime
    /\ watch.pc = "scan"
    /\ ~ItemsLeft(watch)
    /\ watch' = Later([watch EXCEPT !.pc = "reset"])
    /\ UNCHANGED <<svc, eager, lazy, api, threads, drive, monday, events>>

\* last_check = datetime.now()
ResetLastCheck ==
    /\ watch.now < MaxTime
    /\ watch.pc = "reset"
    /\ watch' = Later([watch EXCEPT !.pc = "sleep", !.last_check = watch.now])
    /\ UNCHANGED <<svc, eager, lazy, api, threads, drive, monday, events>>

\* time.sleep(poll_interval_seconds) returns
Sleep ==
    /\ watch.now < MaxTime
    /\ watch.pc = "sleep"
    /\ watch' = Later([watch EXCEPT !.pc = "top"])
    /\ UNCHANGED <<svc, eager, lazy, api, threads, drive, monday, events>>

NextWatch ==
    \/ Arrive
    \/ GetOutlookInbox
    \/ ScanItem
    \/ ItemsRaises
    \/ EndScan
    \/ ResetLastCheck
    \/ Sleep

-----------------------------------------------------------------------------
(* The specifications *)

Init ==
    /\ svc \in Services
    /\ eager = EagerInit
    /\ lazy = LazyInit
    /\ api = ApiInit("envtoken")
    /\ threads = NoThreads
    /\ drive = NoDrive
    /\ monday = NoOperation
    /\ events = NoEvents
    /\ watch = NoWatch

Spec == Init /\ [][Next]_vars

\* the boards of the pagination property: n plain items, pages filled to the limit
PagingCounts == {0, 1, 100, 101, 250}

PagingServices ==
    {Service("ok", <<"A", "B">>, PlainBoard(n), n + PageSize, CursorNone, "none", CursorNone) :
        n \in PagingCounts}

InitPaging ==
    /\ svc \in PagingServices
    /\ eager = EagerInit
    /\ lazy = LazyInit
    /\ api = ApiInit("envtoken")
    /\ threads = NoThreads
    /\ drive = NoDrive
    /\ monday = NoOperation
    /\ events = NoEvents
    /\ watch = NoWatch

SpecPaging == InitPaging /\ [][Next]_vars

\* a service that answers every request, with the caller and the consumer
\* running on: every enabled step is eventually taken
InitAnswering ==
    /\ svc \in OkServices \cup ScenarioServices
    /\ eager = EagerInit
    /\ lazy = LazyInit
    /\ api = ApiInit("envtoken")
    /\ threads = NoThreads
    /\ drive = NoDrive
    /\ monday = NoOperation
    /\ events = NoEvents
    /\ watch = NoWatch

FairSpec == InitAnswering /\ [][Next]_vars /\ WF_vars(Next)

\* the consumers of monday_api.py and direct users of MondayClient, under any
\* environment; no traversal runs
InitApi ==
    /\ svc = Service("ok", <<>>, <<>>, 1, CursorNone, "none", CursorNone)
    /\ eager = EagerInit
    /\ lazy = LazyInit
    /\ api \in {ApiInit(env) : env \in EnvValues}
    /\ threads = NoThreads
    /\ drive = NoDrive
    /\ monday = NoOperation
    /\ events = NoEvents
    /\ watch = NoWatch

SpecApi == InitApi /\ [][NextApi]_vars

\* the services the two callers run against: the scenario board cut into pages
\* of one, two and three items, a page request that fails, a null group
ThreadServices ==
    ScenarioServices
        \cup {Service("ok", <<"A", "B">>, PlainBoard(2), 1, CursorNone, "graphql", 2),
              Service("ok", <<"A", "B">>, <<Item(1, "A", 1), Item(2, NoneVal, 0)>>, 1,
                      CursorNone, "none", CursorNone)}

\* the first caller traverses the first board, the second the same board or the
\* other one; each runs fetch_board or drains traverse_hierarchy with or
\* without subitems; the token is in the environment or not
ThreadPairs ==
    {<<ThreadStart(m1, 1, inc1), ThreadStart(m2, b2, inc2)>> :
        m1 \in {"eager", "lazy"}, inc1 \in BOOLEAN,
        m2 \in {"eager", "lazy"}, inc2 \in BOOLEAN, b2 \in {1, 2}}

InitThreads ==
    /\ svc \in ThreadServices
    /\ eager = EagerInit
    /\ lazy = LazyInit
    /\ api \in {ApiInit(NoneVal), ApiInit("envtoken")}
    /\ threads \in ThreadPairs
    /\ drive = NoDrive
    /\ monday = NoOperation
    /\ events = NoEvents
    /\ watch = NoWatch

SpecThreads == InitThreads /\ [][NextThreads]_vars

\* the folders and files found at the start
QualexArtesia == FolderName(Qualex, Artesia)

QualexArtesiaTower == <<"Qualex", Dash, "Artesia", "Tower">>

OnniArtesiaTower == <<"Onni", Dash, "Artesia", "Tower">>

FolderSets ==
    {{}, {QualexArtesia}, {QualexArtesiaTower}, {QualexArtesia, QualexArtesiaTower},
     {QualexArtesiaTower, OnniArtesiaTower}}

FoundNames ==
    {<<"plan.pdf">>, <<"2024-01-05", "plan.pdf">>, <<"2024-01-05", "draft", "plan.pdf">>,
     <<"9999-99-99", "plan.pdf">>, <<"Site Plan (2).pdf">>,
     <<"2024-01-05", "plan[1].pdf">>}

DriveOf(folders, names) ==
    [dirs |-> {[folder |-> f, sub |-> NoName] : f \in folders},
     files |-> {[folder |-> QualexArtesia, sub |-> NoName, name |-> n] : n \in names},
     calls |-> <<>>]

Drives ==
    {DriveOf(folders, {}) : folders \in FolderSets}
    \cup {DriveOf({QualexArtesia}, {n}) : n \in FoundNames}

InitDrive ==
    /\ svc = Service("ok", <<>>, <<>>, 1, CursorNone, "none", CursorNone)
    /\ eager = EagerInit
    /\ lazy = LazyInit
    /\ api = ApiInit("envtoken")
    /\ threads = NoThreads
    /\ drive \in Drives
    /\ monday = NoOperation
    /\ events = NoEvents
    /\ watch = NoWatch

SpecDrive == InitDrive /\ [][NextDrive]_vars

InitPush ==
    /\ svc = Service("ok", <<>>, <<>>, 1, CursorNone, "none", CursorNone)
    /\ eager = EagerInit
    /\ lazy = LazyInit
    /\ api = ApiInit("envtoken")
    /\ threads = NoThreads
    /\ drive \in {NoDrive, DriveOf({QualexArtesia}, {<<"plan.pdf">>})}
    /\ monday = NoOperation
    /\ events = NoEvents
    /\ watch = NoWatch

SpecPush == InitPush /\ [][NextPush]_vars

InitEvents ==
    /\ svc = Service("ok", <<>>, <<>>, 1, CursorNone, "none", CursorNone)
    /\ eager = EagerInit
    /\ lazy = LazyInit
    /\ api = ApiInit("envtoken")
    /\ threads = NoThreads
    /\ drive = NoDrive
    /\ monday = NoOperation
    /\ events = NoEvents
    /\ watch = NoWatch

SpecEvents == InitEvents /\ [][NextEvents]_vars

InitTask ==
    /\ svc = Service("ok", <<>>, <<>>, 1, CursorNone, "none", CursorNone)
    /\ eager = EagerInit
    /\ lazy = LazyInit
    /\ api \in {ApiInit(env) : env \in EnvValues}
    /\ threads = NoThreads
    /\ drive = NoDrive
    /\ monday = NoOperation
    /\ events = NoEvents
    /\ watch = NoWatch

SpecTask == InitTask /\ [][NextTask]_vars

InitWatch ==
    /\ svc = Service("ok", <<>>, <<>>, 1, CursorNone, "none", CursorNone)
    /\ eager = EagerInit
    /\ lazy = LazyInit
    /\ api = ApiInit("envtoken")
    /\ threads = NoThreads
    /\ drive = NoDrive
    /\ monday = NoOperation
    /\ events = NoEvents
    /\ watch = NoWatch

SpecWatch == InitWatch /\ [][NextWatch]_vars

\* boards of one or two items; a page holds up to cap items (none when cap
\* is 0); the last page carries no cursor, "", or a cursor back into the board
LoopServices ==
    {Service("ok", <<"A">>, [i \in 1..n |-> Item(i, "A", i - 1)], cap, end, "none",
             CursorNone) :
        n \in 1..2, cap \in 0..2, end \in {CursorNone, CursorEmpty, 1, 2}}

InitLoop ==
    /\ svc \in LoopServices
    /\ eager = EagerInit
    /\ lazy = LazyInit
    /\ api = ApiInit("envtoken")
    /\ threads = NoThreads
    /\ drive = NoDrive
    /\ monday = NoOperation
    /\ events = NoEvents
    /\ watch = NoWatch

SpecLoop == InitLoop /\ [][NextLoop]_vars

\* the boards asked for their items: the scenario board by pages of any size,
\* a board with column values, a board with an item of a null group, and the
\* failing answers
MondayServices ==
    ScenarioServices
        \cup {[Service("ok", <<"A">>,
                       <<[Item(1, "A", 0) EXCEPT
                             !.column_values = <<PayloadColumnValue("c1", "{}"),
                                                 PayloadColumnValue("c9", NoneVal)>>]>>,
                       1, CursorNone, "none", CursorNone)
                  EXCEPT !.columns = <<Column(1, "status", "{}")>>]}
        \cup {Service("ok", <<"A">>, <<Item(1, "A", 0), Item(2, NoneVal, 0)>>, 2,
                      CursorNone, "none", CursorNone)}
        \cup {Service(kind, <<>>, <<>>, 1, CursorNone, "none", CursorNone) :
                  kind \in {"transport", "http", "graphql_two", "nodata", "notfound"}}

NextMonday ==
    \/ SetEnv
    \/ ResetClient
    \/ GetBoardItems
    \/ CreateItem
    \/ UpdateItem
    \/ AddUpdateToItem

InitMonday ==
    /\ svc \in MondayServices
    /\ eager = EagerInit
    /\ lazy = LazyInit
    /\ api \in {ApiInit(env) : env \in EnvValues}
    /\ threads = NoThreads
    /\ drive = NoDrive
    /\ monday = NoOperation
    /\ events = NoEvents
    /\ watch = NoWatch

SpecMonday == InitMonday /\ [][NextMonday]_vars

-----------------------------------------------------------------------------
(* Observations used by the properties *)

RECURSIVE Concat(_)
Concat(ss) == IF Len(ss) = 0 THEN <<>> ELSE Head(ss) \o Concat(Tail(ss))

\* the nodes of a tree, parents before children
RECURSIVE NodesOf(_)
NodesOf(node) == <<node>> \o Concat([i \in DOMAIN node.children |-> NodesOf(node.children[i])])

IsItemLevel(node) == node.type \in {"item", "subitem"}

TypeIdPairs(nodes) == [i \in DOMAIN nodes |-> <<nodes[i].type, nodes[i].id>>]

BagOf(seq) == [x \in Range(seq) |-> Cardinality({i \in DOMAIN seq : seq[i] = x})]

ItemLevelBag(nodes) == BagOf(TypeIdPairs(SelectSeq(nodes, IsItemLevel)))

PageRequests(t) == Cardinality({i \in DOMAIN t.log : t.log[i].op = "items"})

SchemaRequests(t) == Cardinality({i \in DOMAIN t.log : t.log[i].op = "schema"})

CeilDiv(n, d) == (n + d - 1) \div d

\* the item's group id is one of the schema's
GroupKnown(item) == item.group \notin {KeyMissing, NoneVal} /\ item.group \in Range(svc.groups)

\* where in the tree an item node with this id hangs: <<0, i>> is the board's
\* i-th child, <<g, j>> the j-th child of the board's g-th child (a group)
ItemSlots(tree, id) ==
    {<<0, i>> : i \in {i \in DOMAIN tree.children :
                        tree.children[i].type = "item" /\ tree.children[i].id = id}}
    \cup UNION {{<<g, j>> : j \in {j \in DOMAIN tree.children[g].children :
                                     tree.children[g].children[j].type = "item"
                                     /\ tree.children[g].children[j].id = id}} :
                g \in {g \in DOMAIN tree.children : tree.children[g].type = "group"}}

DeliveredIndex(delivered, id) == CHOOSE k \in DOMAIN delivered : delivered[k].id = id

\* the item children of a node are in the order the pages delivered them
InDeliveryOrder(node, delivered) ==
    \A i, j \in DOMAIN node.children :
        (i < j /\ node.children[i].type = "item" /\ node.children[j].type = "item")
        => DeliveredIndex(delivered, node.children[i].id)
             < DeliveredIndex(delivered, node.children[j].id)

Ids(seq) == [i \in DOMAIN seq |-> seq[i].id]

RECURSIVE Shape(_)
Shape(node) == <<node.type, node.id, [i \in DOMAIN node.children |-> Shape(node.children[i])]>>

ScenarioShape ==
    <<"board", "b1",
      << <<"group", "A",
           << <<"item", 1, << <<"subitem", 11, <<>> >>, <<"subitem", 12, <<>> >> >> >>,
              <<"item", 2, <<>> >> >> >>,
         <<"group", "B", << <<"item", 3, <<>> >> >> >> >> >>

\* what a drained traverse_hierarchy is to yield for the items delivered
RECURSIVE ExpectedItemYields(_, _)
ExpectedItemYields(items, inc) ==
    IF Len(items) = 0 THEN <<>>
    ELSE <<<<"item", Head(items).id>>>>
         \o (IF inc THEN [j \in DOMAIN Head(items).subitems |->
                             <<"subitem", Head(items).subitems[j].id>>]
             ELSE <<>>)
         \o ExpectedItemYields(Tail(items), inc)

ExpectedYields(t) ==
    <<<<"board", svc.board>>>> \o [i \in DOMAIN svc.groups |-> <<"group", svc.groups[i]>>]
        \o ExpectedItemYields(t.delivered, t.include_subitems)

SamePair(a, b) == a[1] = b[1] /\ a[2] = b[2]

PairsPrefix(s, t) == Len(s) <= Len(t) /\ \A i \in DOMAIN s : SamePair(s[i], t[i])

IsPrefix(s, t) == Len(s) <= Len(t) /\ SubSeq(t, 1, Len(s)) = s

IsPageRequest(req) == req.op = "items"

\* the page requests of a traversal, in the order they were issued
PageLog(t) == SelectSeq(t.log, IsPageRequest)

\* what _fetch_items_page gives for a page request
PageAnswer(req) == FetchItemsPage(Query(ItemsResponse(svc, req.cursor, req.limit)))

\* the page requests that have been answered: all but the one still in flight
AnsweredPages(t) == IF t.pc = "fetching" THEN Len(PageLog(t)) - 1 ELSE Len(PageLog(t))

\* what the connector gets for a request: a schema, a page, or an exception
Answer(req) ==
    IF req.op = "schema" THEN Discover(Query(SchemaResponse(svc))) ELSE PageAnswer(req)

\* the query calls of a traversal that have ended: all but the one in flight
EndedCalls(t) == IF t.pc \in {"discovering", "fetching"} THEN Len(t.log) - 1 ELSE Len(t.log)

\* the column values of a sequence of nodes
ColumnValuesOf(nodes) == UNION {Range(nodes[i].column_values) : i \in DOMAIN nodes}

\* the schema discovery gives against the service
WholeSchema == Discover(Query(SchemaResponse(svc))).schema

\* the tree of the board when all its items come in one page
WholeTree == AttachItems(BoardNode(WholeSchema), WholeSchema, svc.items).tree

\* the nodes of the items, each followed by its subitems when they are included
RECURSIVE ItemYields(_, _, _)
ItemYields(items, columns, inc) ==
    IF Len(items) = 0 THEN <<>>
    ELSE <<LazyItemNode(Head(items), columns)>>
         \o (IF inc THEN SubitemNodes(Head(items), columns) ELSE <<>>)
         \o ItemYields(Tail(items), columns, inc)

\* the node sequence of the board when all its items come in one page
WholeYields(inc) ==
    <<Node("board", WholeSchema.board_id, <<>>, KeyMissing, KeyMissing)>>
        \o [i \in DOMAIN WholeSchema.groups |-> GroupNode(WholeSchema.groups[i])]
        \o ItemYields(svc.items, WholeSchema.columns, inc)

\* what requests.post gave for the last request of a traversal
LastResponse(t) ==
    LET req == t.log[Len(t.log)]
    IN  IF req.op = "schema" THEN SchemaResponse(svc)
        ELSE ItemsResponse(svc, req.cursor, req.limit)

\* the last query call of the traversal has ended
Answered(t) == Len(t.log) >= 1 /\ t.pc \notin {"discovering", "fetching"}

HasErrorList(resp) == ~resp.exc /\ "errors" \in DOMAIN resp.json

BadStatus(resp) == ~resp.exc /\ resp.status_code # 200

\* the answer the client gives to the request the traversal is blocked in
Pending(t) ==
    IF t.pc = "discovering" THEN Query(SchemaResponse(svc))
    ELSE Query(ItemsResponse(svc, t.log[Len(t.log)].cursor, t.log[Len(t.log)].limit))

Blocked(t) == t.pc \in {"discovering", "fetching"}

Phase(t) ==
    CASE t.pc = "init" -> "INIT"
      [] t.pc \in {"discovering", "groups"} -> "DISCOVERING"
      [] t.pc = "fetching" -> "FETCHING_PAGE"
      [] t.pc = "attaching" -> "ATTACHING"
      [] t.pc = "done" -> "DONE"
      [] t.pc = "failed" -> "FAILED"

PhaseEdges ==
    {<<"INIT", "DISCOVERING">>, <<"DISCOVERING", "DISCOVERING">>,
     <<"DISCOVERING", "FETCHING_PAGE">>, <<"DISCOVERING", "FAILED">>,
     <<"FETCHING_PAGE", "ATTACHING">>, <<"FETCHING_PAGE", "FAILED">>,
     <<"ATTACHING", "ATTACHING">>, <<"ATTACHING", "FETCHING_PAGE">>,
     <<"ATTACHING", "DONE">>}

-----------------------------------------------------------------------------
(* Properties *)

\* C1: when fetch_board has returned and traverse_hierarchy (subitems included)
\* has been drained against the same service, the Item and Subitem nodes of the
\* tree and those yielded are the same multiset of (type, id) pairs.
C1_EagerLazySameNodes ==
    (eager.pc = "done" /\ lazy.pc = "done" /\ lazy.include_subitems)
    => ItemLevelBag(NodesOf(eager.tree)) = ItemLevelBag(lazy.yielded)

C1_Witness ==
    /\ eager.pc = "done" /\ lazy.pc = "done" /\ lazy.include_subitems
    /\ PageRequests(eager) >= 2
    /\ \E i, j \in DOMAIN lazy.yielded :
          lazy.yielded[i].type = "item" /\ lazy.yielded[j].type = "subitem"
    /\ \E k \in DOMAIN svc.items : ~GroupKnown(svc.items[k])

\* C2 as stated: a complete traversal of N items issues exactly ceil(N/100) page
\* requests (none for N = 0) and the last cursor received is absent.
C2_CeilPageRequests ==
    /\ eager.pc = "done" => PageRequests(eager) = CeilDiv(Len(svc.items), 100)
                            /\ eager.cursor = CursorNone
    /\ lazy.pc = "done" => PageRequests(lazy) = CeilDiv(Len(svc.items), 100)
                           /\ lazy.cursor = CursorNone

\* C2 amended: a complete traversal of N items issues exactly max(1, ceil(N/100))
\* page requests (one, answered by an empty page, for N = 0) and the last cursor
\* received is absent.
C2_AtLeastOnePageRequest ==
    LET expected == IF Len(svc.items) = 0 THEN 1 ELSE CeilDiv(Len(svc.items), 100)
    IN  /\ eager.pc = "done" => PageRequests(eager) = expected /\ eager.cursor = CursorNone
        /\ lazy.pc = "done" => PageRequests(lazy) = expected /\ lazy.cursor = CursorNone

C2_Witness ==
    /\ Len(svc.items) = 250
    /\ eager.pc = "done" /\ PageRequests(eager) = 3
    /\ lazy.pc = "done" /\ PageRequests(lazy) = 3

\* C3 as stated: against a service that answers every request, whose cursor is
\* absent exactly on the last page and whose pages each deliver items,
\* fetch_board eventually returns and the pulled sequence eventually ends.
C3_BothComplete == <>(eager.pc = "done" /\ lazy.pc = "done")

\* C4 as stated: no item whose group id is absent, null or unknown makes
\* fetch_board fail, and in the returned tree each such item delivered is a
\* direct child of the board, every item delivered being in the tree.
C4_UngroupedUnderBoard ==
    /\ eager.error.type # "AttributeError"
    /\ eager.returned =>
          \A k \in DOMAIN eager.delivered :
              /\ ItemSlots(eager.tree, eager.delivered[k].id) # {}
              /\ ~GroupKnown(eager.delivered[k]) =>
                    \E s \in ItemSlots(eager.tree, eager.delivered[k].id) : s[1] = 0

\* C5: in the returned tree every item delivered hangs in exactly one place:
\* under a group with the item's group id when the schema knows that id,
\* otherwise directly under the board; and the tree holds no other item node.
C5_ItemHasOneParent ==
    eager.returned =>
       /\ \A k \in DOMAIN eager.delivered :
             LET it == eager.delivered[k]
                 slots == ItemSlots(eager.tree, it.id)
             IN  /\ Cardinality(slots) = 1
                 /\ \A s \in slots :
                       IF GroupKnown(it)
                       THEN s[1] # 0 /\ eager.tree.children[s[1]].id = it.group
                       ELSE s[1] = 0
       /\ Len(SelectSeq(NodesOf(eager.tree), LAMBDA n : n.type = "item"))
             = Len(eager.delivered)

C5_Witness ==
    /\ eager.returned
    /\ svc.groups = <<"A", "A">>
    /\ \E k \in DOMAIN eager.delivered : GroupKnown(eager.delivered[k])
    /\ \E k \in DOMAIN eager.delivered : eager.delivered[k].group = "B"

\* C6: in the returned tree the board's group children are the schema's groups
\* in schema order, the items of every group (and of the board) are in delivery
\* order, the subitems of every item are in delivery order, and the board of
\* groups A, B with items 1, 2 in A (two subitems on item 1) and item 3 in B
\* gives Board -> [A -> [Item1 -> [Subitem1, Subitem2], Item2], B -> [Item3]].
C6_DeterministicOrder ==
    eager.returned =>
       LET tree == eager.tree
           groupNodes == SelectSeq(tree.children, LAMBDA n : n.type = "group")
           itemNodes == SelectSeq(NodesOf(tree), LAMBDA n : n.type = "item")
       IN  /\ Len(groupNodes) = Len(svc.groups)
           /\ \A i \in DOMAIN groupNodes : groupNodes[i].id = svc.groups[i]
           /\ InDeliveryOrder(tree, eager.delivered)
           /\ \A i \in DOMAIN groupNodes : InDeliveryOrder(groupNodes[i], eager.delivered)
           /\ \A i \in DOMAIN itemNodes :
                 Ids(itemNodes[i].children)
                   = Ids(eager.delivered[DeliveredIndex(eager.delivered, itemNodes[i].id)].subitems)
           /\ svc \in ScenarioServices => Shape(tree) = ScenarioShape

C6_Witness ==
    /\ eager.returned
    /\ svc \in ScenarioServices
    /\ PageRequests(eager) = 3

\* C7: with subitems included, what traverse_hierarchy has yielded so far is
\* always a prefix of: the board node, the group nodes in schema order, then for
\* each item delivered, page after page, the item node followed by its subitem
\* nodes; a drained sequence is all of it.
C7_YieldOrder ==
    lazy.include_subitems =>
       /\ PairsPrefix(TypeIdPairs(lazy.yielded), ExpectedYields(lazy))
       /\ lazy.pc = "done" => Len(lazy.yielded) = Len(ExpectedYields(lazy))

C7_Witness ==
    /\ lazy.pc = "done" /\ lazy.include_subitems
    /\ Len(svc.groups) = 2
    /\ PageRequests(lazy) >= 2
    /\ \E i \in DOMAIN lazy.yielded :
          /\ i + 3 <= Len(lazy.yielded)
          /\ lazy.yielded[i].type = "item"
          /\ lazy.yielded[i + 1].type = "subitem"
          /\ lazy.yielded[i + 2].type = "subitem"
          /\ lazy.yielded[i + 3].type = "item"

\* C8: in streaming mode a request that fails makes the pull blocked in it raise
\* the client's error, with everything yielded before left as it was: nothing at
\* all when discovery failed, else the board, the groups and every node of the
\* pages received; and a failed sequence never yields again.
C8_StreamFailure ==
    [][/\ (Blocked(lazy) /\ Pending(lazy).raised /\ lazy' # lazy) =>
             /\ lazy'.pc = "failed"
             /\ lazy'.error = Pending(lazy).error
             /\ lazy'.yielded = lazy.yielded
             /\ lazy.pc = "discovering" => lazy.yielded = <<>>
             /\ lazy.pc = "fetching" =>
                   /\ Len(lazy.yielded) = Len(ExpectedYields(lazy))
                   /\ PairsPrefix(TypeIdPairs(lazy.yielded), ExpectedYields(lazy))
       /\ IsPrefix(lazy.yielded, lazy'.yielded)
       /\ lazy.pc = "failed" => lazy' = lazy]_vars

C8_Witness ==
    /\ lazy.pc = "failed"
    /\ lazy.error.type = "MondayClientError"
    /\ PageRequests(lazy) = 2
    /\ \E i \in DOMAIN lazy.yielded : lazy.yielded[i].type = "item"

\* C9: in eager mode a request that fails (discovery or a page) makes fetch_board
\* raise exactly the client's error: no further request is sent, no tree is
\* returned, and the failed call does nothing more.
C9_EagerFailurePropagates ==
    [][/\ (Blocked(eager) /\ Pending(eager).raised /\ eager' # eager) =>
             /\ eager'.pc = "failed"
             /\ eager'.error = Pending(eager).error
             /\ eager'.log = eager.log
             /\ ~eager'.returned
       /\ eager.pc = "failed" => eager' = eager /\ ~eager.returned]_vars

C9_Witness ==
    /\ eager.pc = "failed"
    /\ eager.error.type = "MondayClientError"
    /\ PageRequests(eager) = 2
    /\ Len(eager.delivered) >= 1
    /\ ~eager.returned

\* C10 as stated: each traversal moves only along
\* INIT -> DISCOVERING -> (FETCHING_PAGE -> ATTACHING)* -> DONE, with FAILED
\* entered only from DISCOVERING or FETCHING_PAGE; discovery is requested once
\* and before any page request; DONE and FAILED are final.
C10_StateMachine ==
    [][/\ eager' # eager => <<Phase(eager), Phase(eager')>> \in PhaseEdges
       /\ lazy' # lazy => <<Phase(lazy), Phase(lazy')>> \in PhaseEdges
       /\ SchemaRequests(eager') <= 1 /\ SchemaRequests(lazy') <= 1
       /\ PageRequests(eager') >= 1 => eager'.log[1].op = "schema"
       /\ PageRequests(lazy') >= 1 => lazy'.log[1].op = "schema"
       /\ eager.pc \in {"done", "failed"} => eager' = eager
       /\ lazy.pc \in {"done", "failed"} => lazy' = lazy]_vars

\* C11: in each traversal the first page request carries no cursor, every later
\* page request carries the cursor that the answer to the page request before it
\* returned, and an answer without a next cursor is the last: no page request
\* follows it.
C11_CursorChain ==
    \A t \in {eager, lazy} :
        LET pages == PageLog(t)
        IN  /\ Len(pages) >= 1 => pages[1].cursor = CursorNone
            /\ \A k \in 2..Len(pages) :
                   /\ ~PageAnswer(pages[k - 1]).raised
                   /\ pages[k].cursor = PageAnswer(pages[k - 1]).cursor
            /\ \A k \in 1..AnsweredPages(t) :
                   (~PageAnswer(pages[k]).raised /\ PageAnswer(pages[k]).cursor = CursorNone)
                   => k = Len(pages)

C11_Witness ==
    /\ eager.pc = "done" /\ lazy.pc = "done"
    /\ Len(PageLog(eager)) = 3 /\ Len(PageLog(lazy)) = 3
    /\ PageLog(lazy)[3].cursor = 3
    /\ PageAnswer(PageLog(lazy)[3]).cursor = CursorNone

\* C12: each query call of a traversal has sent exactly one request when it ends,
\* whether it returns or raises, so the requests sent are as many as the query
\* calls ended; and a request that failed is the last of its traversal: nothing
\* is sent after it, the failed request included.
C12_OneAttemptNoRetry ==
    \A t \in {eager, lazy} :
        /\ t.posts = EndedCalls(t)
        /\ \A k \in 1..EndedCalls(t) : Answer(t.log[k]).raised => k = Len(t.log)
        /\ (t.pc = "failed" /\ t.error.type \in {"MondayClientError", "ValueError"})
              => /\ Answer(t.log[Len(t.log)]).raised
                 /\ t.posts = Len(t.log)

C12_Witness ==
    /\ eager.pc = "failed" /\ eager.error.type = "MondayClientError"
    /\ "status_code" \notin DOMAIN eager.error
    /\ Len(eager.log) = 3 /\ eager.posts = 3
    /\ lazy.pc = "failed" /\ Len(lazy.log) = 3 /\ lazy.posts = 3

\* C13 as stated: whenever the response body contains an error list the call
\* raises an error carrying that list, and whenever the status is not 200 it
\* raises an error carrying the status code; in both cases the caller gets the
\* exception and no data.
C13_ErrorsRaised ==
    \A t \in {eager, lazy} :
        Answered(t) =>
            LET resp == LastResponse(t)
            IN  /\ HasErrorList(resp) =>
                      /\ t.pc = "failed"
                      /\ "errors" \in DOMAIN t.error
                      /\ t.error.errors = resp.json.errors
                /\ BadStatus(resp) =>
                      /\ t.pc = "failed"
                      /\ "status_code" \in DOMAIN t.error
                      /\ t.error.status_code = resp.status_code

\* C13 amended: whenever the status is 200 and the body contains an error list
\* the call raises an error carrying that list and the joined messages; whenever
\* the status is not 200 it raises an error carrying the status code and the raw
\* text, and no error list, whatever the body holds; in both cases the caller
\* gets the exception and no data.
C13_ErrorsRaisedByStatus ==
    \A t \in {eager, lazy} :
        Answered(t) =>
            LET resp == LastResponse(t)
            IN  /\ (HasErrorList(resp) /\ ~BadStatus(resp)) =>
                      /\ t.pc = "failed"
                      /\ "errors" \in DOMAIN t.error
                      /\ t.error.errors = resp.json.errors
                      /\ t.error.message.joined
                           = Join("; ", [i \in DOMAIN resp.json.errors |->
                                            ErrorMessage(resp.json.errors[i])])
                /\ BadStatus(resp) =>
                      /\ t.pc = "failed"
                      /\ "status_code" \in DOMAIN t.error
                      /\ t.error.status_code = resp.status_code
                      /\ t.error.message.text = resp.text
                      /\ "errors" \notin DOMAIN t.error

C13_Witness ==
    /\ eager.pc = "failed" /\ lazy.pc = "failed"
    /\ HasErrorList(LastResponse(lazy)) /\ BadStatus(LastResponse(lazy))
    /\ lazy.error.status_code = 401
    /\ Len(lazy.yielded) >= 4

\* C14 as stated: when the answer (status 200) carries an error list and a data
\* object, the error raised carries that data, readable by the caller, together
\* with the joined messages.
C14_PartialDataPreserved ==
    \A t \in {eager, lazy} :
        (/\ Answered(t)
         /\ HasErrorList(LastResponse(t)) /\ ~BadStatus(LastResponse(t))
         /\ "data" \in DOMAIN LastResponse(t).json)
        => /\ t.pc = "failed"
           /\ t.error.message.joined
                = Join("; ", [i \in DOMAIN LastResponse(t).json.errors |->
                                 ErrorMessage(LastResponse(t).json.errors[i])])
           /\ "data" \in DOMAIN t.error
           /\ t.error.data = LastResponse(t).json.data

\* C15: when the answer to the schema query holds no board, discovery raises the
\* not-found ValueError and gives no schema; fetch_board and traverse_hierarchy
\* then fail with that error having sent no page request and produced no node.
C15_NotFound ==
    LET q == Query(SchemaResponse(svc))
    IN  (~q.raised /\ BoardsOf(q.data) = <<>>) =>
            /\ Discover(q).raised
            /\ Discover(q).error = [type |-> "ValueError", kind |-> "notfound"]
            /\ \A t \in {eager, lazy} :
                   /\ PageRequests(t) = 0
                   /\ t.schema = NoSchema
                   /\ Answered(t) => t.pc = "failed" /\ t.error = Discover(q).error
            /\ eager.tree = NoTree /\ ~eager.returned
            /\ lazy.yielded = <<>>

C15_Witness ==
    /\ svc.discovery = "notfound"
    /\ eager.pc = "failed" /\ eager.error.type = "ValueError"
    /\ lazy.pc = "failed" /\ lazy.error.type = "ValueError"
    /\ Len(lazy.log) = 1

\* C16 as stated: after discovery a column whose settings payload does not decode
\* has an empty settings map and empty labels, discovery has not aborted, and
\* every other column has its own decoded settings, all columns in the board's
\* order.
C16_MalformedSettingsEmptyMap ==
    \A t \in {eager, lazy} :
        (Answered(t) /\ svc.discovery = "ok") =>
            /\ Len(t.log) = 1 => t.pc # "failed"
            /\ Len(t.schema.columns) = Len(svc.columns)
            /\ \A i \in DOMAIN svc.columns :
                   LET col == svc.columns[i]
                       column == t.schema.columns[i]
                   IN  /\ column.id = col.id
                       /\ (HasSettingsStr(col) /\ ~JsonLoads(col.settings_str).ok) =>
                              /\ "settings" \in DOMAIN column
                              /\ column.settings = <<>>
                              /\ Labels(column) = <<>>
                       /\ (HasSettingsStr(col) /\ JsonLoads(col.settings_str).ok) =>
                              /\ "settings" \in DOMAIN column
                              /\ column.settings = JsonLoads(col.settings_str).value

\* the call failed because no credential was found
CredentialFailure(call) ==
    IF call.op \in {"query", "mutate"}
    THEN call.result.raised /\ Str(call.result.error) = [fmt |-> "token_required"]
    ELSE IF call.op = "_make_request"
    THEN "error" \in DOMAIN call.result /\ call.result.error = [fmt |-> "token_required"]
    ELSE call.result.raised

\* C17 as stated: every client object holds a token, and a missing credential
\* makes only the construction MondayClient(...) fail: no later call, through a
\* client or through _make_request, fails because the credential is missing.
C17_CredentialOnlyAtConstruction ==
    /\ \A client \in api.clients : HasToken(client)
    /\ api.default_client # NoneVal => HasToken(api.default_client)
    /\ \A i \in DOMAIN api.calls :
          CredentialFailure(api.calls[i]) => api.calls[i].op = "MondayClient"

\* C18: the render hint of a type tag is the table's category when the table
\* holds the tag and "text" when it does not, the empty tag included; the hint of
\* every column of a discovered schema and the hint stored on every column value
\* of every node built or yielded is that function of the column's/value's type.
C18_RenderHintTotal ==
    /\ \A tag \in TypeTags :
          RenderHint(tag) = IF tag \in DOMAIN RenderHintTable THEN RenderHintTable[tag]
                            ELSE "text"
    /\ RenderHint("") = "text" /\ RenderHint("link") = "url" /\ RenderHint("people") = "person"
    /\ \A t \in {eager, lazy} : \A i \in DOMAIN t.schema.columns :
          ColumnRenderHint(t.schema.columns[i]) = RenderHint(t.schema.columns[i].type)
    /\ \A cv \in ColumnValuesOf(NodesOf(eager.tree)) \cup ColumnValuesOf(lazy.yielded) :
          cv.render_hint = RenderHint(cv.type)

C18_Witness ==
    /\ eager.pc = "done" /\ lazy.pc = "done"
    /\ Len(svc.items) = 1 /\ Len(svc.items[1].column_values) = 1
    /\ svc.items[1].column_values[1].type = NoneVal
    /\ \E cv \in ColumnValuesOf(NodesOf(eager.tree)) :
          cv.type = "link" /\ cv.render_hint = "url"
    /\ \E cv \in ColumnValuesOf(lazy.yielded) : cv.type = "link" /\ cv.render_hint = "url"

\* C19: against a service that answers every request, however the board's item
\* list is cut into consecutive pages, fetch_board returns the tree and a drained
\* traverse_hierarchy has yielded the node sequence (what it yielded so far being
\* a prefix of it) that the whole list in a single page gives; so any two ways
\* of cutting the list give the same tree and the same sequence.
C19_PageSizeIrrelevant ==
    (svc.discovery = "ok" /\ svc.failKind = "none") =>
        /\ eager.returned => eager.tree = WholeTree
        /\ IsPrefix(lazy.yielded, WholeYields(lazy.include_subitems))
        /\ lazy.pc = "done" => lazy.yielded = WholeYields(lazy.include_subitems)

C19_Witness ==
    /\ Len(svc.caps) = 3 /\ svc.caps[1] = 1 /\ svc.caps[2] = 2
    /\ eager.returned /\ PageRequests(eager) = 2
    /\ lazy.pc = "done" /\ PageRequests(lazy) = 2 /\ lazy.include_subitems
    /\ Len(lazy.yielded) = 8

\* C20: the generator runs only inside a pull.  No request is sent before the
\* first pull; a request is sent only by a pull still unanswered; when a page
\* request is in flight (the first one included) every node of the board, the
\* groups and the pages received so far has been yielded and pulled past; at a
\* suspension point nothing happens until the next pull; and the page held is
\* only the last one received, with the cursor that came with it.
C20_LazyOnePage ==
    [][/\ Len(lazy'.log) >= 1 => lazy'.pulls >= 1
       /\ lazy'.log # lazy.log => lazy'.pulls = Len(lazy'.yielded) + 1
       /\ lazy'.pc = "fetching" =>
             /\ lazy'.pulls = Len(lazy'.yielded) + 1
             /\ Len(lazy'.yielded) = Len(ExpectedYields(lazy'))
             /\ PairsPrefix(TypeIdPairs(lazy'.yielded), ExpectedYields(lazy'))
       /\ (lazy.pulls = Len(lazy.yielded) /\ lazy'.pulls = lazy.pulls) => lazy' = lazy
       /\ lazy'.pc = "attaching" =>
             /\ lazy'.page = PageAnswer(PageLog(lazy')[Len(PageLog(lazy'))]).items
             /\ lazy'.cursor = PageAnswer(PageLog(lazy')[Len(PageLog(lazy'))]).cursor
       /\ PageLog(lazy') = <<>> => lazy'.page = <<>>]_vars

C20_Witness ==
    /\ lazy.pc = "fetching" /\ PageRequests(lazy) = 3
    /\ lazy.pulls = Len(lazy.yielded) + 1
    /\ Len(lazy.yielded) = 7
    /\ Len(lazy.page) = 1

\* how many nodes of a type and id a sequence of nodes holds
CountOf(nodes, type, id) ==
    Cardinality({i \in DOMAIN nodes : nodes[i].type = type /\ nodes[i].id = id})

\* the subitems the pages delivered, item after item
DeliveredSubitems(t) == Concat([k \in DOMAIN t.delivered |-> t.delivered[k].subitems])

\* C21: a drained traverse_hierarchy has yielded one board node, as many group
\* nodes of each id as the schema has groups of that id, as many item nodes of
\* each id as the pages delivered items of that id, and the same for the subitems
\* when they are included (none of them when they are not), and nothing else;
\* every step adds at most one node after those yielded and changes none of
\* them; and a sequence that has ended or failed never moves again.
C21_YieldedExactlyOnce ==
    [][/\ IsPrefix(lazy.yielded, lazy'.yielded)
       /\ Len(lazy'.yielded) <= Len(lazy.yielded) + 1
       /\ lazy.pc \in {"done", "failed"} => lazy' = lazy
       /\ lazy'.pc = "done" =>
             LET out == lazy'.yielded
                 subs == DeliveredSubitems(lazy')
             IN  /\ CountOf(out, "board", svc.board) = 1
                 /\ \A g \in Range(svc.groups) :
                       CountOf(out, "group", g)
                         = Cardinality({i \in DOMAIN svc.groups : svc.groups[i] = g})
                 /\ \A k \in DOMAIN lazy'.delivered :
                       CountOf(out, "item", lazy'.delivered[k].id)
                         = Cardinality({j \in DOMAIN lazy'.delivered :
                                           lazy'.delivered[j].id = lazy'.delivered[k].id})
                 /\ \A k \in DOMAIN subs :
                       CountOf(out, "subitem", subs[k].id)
                         = IF lazy'.include_subitems
                           THEN Cardinality({j \in DOMAIN subs : subs[j].id = subs[k].id})
                           ELSE 0
                 /\ Len(out) = 1 + Len(svc.groups) + Len(lazy'.delivered)
                                 + (IF lazy'.include_subitems THEN Len(subs) ELSE 0)]_vars

C21_Witness ==
    /\ lazy.pc = "done" /\ lazy.include_subitems
    /\ svc.groups = <<"A", "A">>
    /\ PageRequests(lazy) = 2
    /\ CountOf(lazy.yielded, "group", "A") = 2
    /\ CountOf(lazy.yielded, "item", 2) = 1
    /\ CountOf(lazy.yielded, "subitem", 11) = 1
    /\ Len(lazy.yielded) = 7

\* the item node yielded last before position i; 0 when there is none
ItemBefore(nodes, i) ==
    IF \E j \in 1..(i - 1) : nodes[j].type = "item"
    THEN CHOOSE j \in 1..(i - 1) :
            nodes[j].type = "item" /\ \A k \in (j + 1)..(i - 1) : nodes[k].type # "item"
    ELSE 0

\* C22: in the tree fetch_board builds, subitem nodes hang only under item nodes:
\* each is a child of the item node of the item it was nested under in the page
\* and occurs nowhere else, has no children, and carries that item's id (the
\* identifier itself) as its parent id; the returned tree holds every delivered
\* subitem.  Every subitem node traverse_hierarchy yields carries the id of the
\* item node yielded last before it, whose item delivered it.
C22_SubitemHasOneParent ==
    LET nodes == NodesOf(eager.tree)
        SubitemIds(id) ==
            Range(Ids(eager.delivered[DeliveredIndex(eager.delivered, id)].subitems))
    IN  /\ \A i \in DOMAIN nodes :
              /\ nodes[i].type \in {"board", "group"} =>
                    \A c \in DOMAIN nodes[i].children : nodes[i].children[c].type # "subitem"
              /\ nodes[i].type = "subitem" => nodes[i].children = <<>>
              /\ nodes[i].type = "item" =>
                    \A c \in DOMAIN nodes[i].children :
                        LET sub == nodes[i].children[c]
                        IN  /\ sub.type = "subitem"
                            /\ sub.parent_item_id = nodes[i].id
                            /\ sub.id \in SubitemIds(nodes[i].id)
                            /\ CountOf(nodes, "subitem", sub.id) = 1
        /\ eager.returned =>
              Len(SelectSeq(nodes, LAMBDA n : n.type = "subitem"))
                = Len(DeliveredSubitems(eager))
        /\ \A i \in DOMAIN lazy.yielded :
              lazy.yielded[i].type = "subitem" =>
                 LET p == ItemBefore(lazy.yielded, i)
                 IN  /\ p # 0
                     /\ lazy.yielded[i].parent_item_id = lazy.yielded[p].id
                     /\ lazy.yielded[i].id
                          \in Range(Ids(lazy.delivered[DeliveredIndex(lazy.delivered,
                                                                      lazy.yielded[p].id)].subitems))

C22_Witness ==
    /\ eager.returned /\ lazy.pc = "done"
    /\ Len(svc.items) = 2
    /\ Len(svc.items[1].subitems) = 1 /\ Len(svc.items[2].subitems) = 1
    /\ PageRequests(eager) = 2
    /\ \E i \in DOMAIN lazy.yielded :
          lazy.yielded[i].type = "subitem" /\ lazy.yielded[i].parent_item_id = 2
    /\ \E n \in Range(NodesOf(eager.tree)) :
          n.type = "item" /\ n.id = 2 /\ Len(n.children) = 1
          /\ n.children[1].parent_item_id = 2

\* the nodes fetch_board has built and those traverse_hierarchy has yielded
ProducedNodes == Range(NodesOf(eager.tree)) \cup Range(lazy.yielded)

\* C23 as stated: in every node built or yielded the column values have pairwise
\* distinct ids, whatever list of column values the page delivered for the item.
C23_ColumnValueIdsDistinct ==
    \A n \in ProducedNodes :
        \A i, j \in DOMAIN n.column_values :
            i # j => n.column_values[i].id # n.column_values[j].id

\* the item or subitem, as the pages delivered it, that a node was made from
SourceOf(t, node) ==
    IF node.type = "item" THEN t.delivered[DeliveredIndex(t.delivered, node.id)]
    ELSE DeliveredSubitems(t)[DeliveredIndex(DeliveredSubitems(t), node.id)]

\* the payload is there and json.loads decodes it
Decodable(cv) == cv.value \notin {KeyMissing, NoneVal} /\ JsonLoads(cv.value).ok

\* the payload is missing, null or the empty string
NoPayload(cv) == cv.value \in {KeyMissing, NoneVal, ""}

RECURSIVE AloneAfter(_, _, _, _)
AloneAfter(mode, s, inc, n) ==
    IF n = 0 THEN (IF mode = "eager" THEN EagerInit ELSE LazyInit)
    ELSE Step(mode, AloneAfter(mode, s, inc, n - 1), s, inc)

\* what a caller that runs alone ends with: the returned tree or the drained
\* sequence, or the exception
RECURSIVE RunAlone(_, _, _, _)
RunAlone(mode, t, s, inc) ==
    IF t.pc \in {"done", "failed"} THEN t
    ELSE RunAlone(mode, Step(mode, t, s, inc), s, inc)

\* C25: with two callers on threads of their own, on the same board or on two,
\* their steps interleaved in any order, each caller's traversal is at every
\* moment exactly where it would be after as many steps run alone against the
\* same service (tree, nodes yielded and their order, cursor, requests sent),
\* and ends with what the run alone ends with; the client each one runs with
\* holds the environment's token, and a caller ends without traversal only
\* when there is no token.
C25_ThreadsIndependent ==
    \A i \in DOMAIN threads :
        LET th == threads[i]
            s == ServiceOf(th.board)
        IN  /\ th.pc = "run" =>
                  /\ th.client = api.env /\ HasToken(th.client)
                  /\ th.t = AloneAfter(th.mode, s, th.inc, th.n)
                  /\ th.t.pc \in {"done", "failed"} =>
                        th.t = RunAlone(th.mode, AloneAfter(th.mode, s, th.inc, 0), s, th.inc)
            /\ th.pc = "ended" =>
                  /\ ~HasToken(api.env)
                  /\ th.n = 0
                  /\ th.t.error = [type |-> "ValueError", kind |-> "token_required"]
            /\ th.pc # "run" => th.n = 0

C25_Witness ==
    /\ Len(threads) = 2
    /\ threads[1].constructed /\ threads[2].constructed
    /\ threads[1].mode = "lazy" /\ threads[2].mode = "eager" /\ threads[2].board = 1
    /\ threads[1].t.pc = "attaching" /\ PageRequests(threads[1].t) = 2
    /\ Len(threads[1].t.yielded) = 6
    /\ threads[2].t.pc = "fetching" /\ PageRequests(threads[2].t) = 2
    /\ Len(threads[2].t.delivered) = 2

\* the operations that read: BOARD_SCHEMA_QUERY and BOARD_ITEMS_QUERY are both
\* GraphQL `query` documents
ReadOperations == {"schema", "items"}

\* C26: no step changes the remote service; every request a traversal has sent
\* is the schema query or the items query; and every fetch_board and every
\* traverse_hierarchy that has started has sent exactly one schema query of its
\* own, as its first request, whatever an earlier call on the same board has
\* already discovered: the step that starts a call sends it.
C26_ReadOnlyNoCache ==
    [][/\ svc' = svc
       /\ \A t \in {eager', lazy'} :
             /\ \A k \in DOMAIN t.log : t.log[k].op \in ReadOperations
             /\ t.pc # "init" => SchemaRequests(t) = 1 /\ t.log[1] = SchemaRequest
             /\ t.pc \notin {"init", "discovering"} => t.posts >= 1
       /\ (lazy.pc = "init" /\ lazy' # lazy) =>
             /\ lazy'.pc = "discovering"
             /\ lazy'.log = <<SchemaRequest>>
             /\ lazy'.schema = NoSchema
       /\ (eager.pc = "init" /\ eager' # eager) =>
             /\ eager'.pc = "discovering"
             /\ eager'.log = <<SchemaRequest>>
             /\ eager'.schema = NoSchema]_vars

C26_Witness ==
    /\ eager.returned /\ lazy.pc = "done"
    /\ eager.schema # NoSchema /\ lazy.schema = eager.schema
    /\ SchemaRequests(eager) = 1 /\ SchemaRequests(lazy) = 1
    /\ PageRequests(eager) = 2 /\ PageRequests(lazy) = 2
    /\ eager.posts = 3 /\ lazy.posts = 3

\* C27: every mutate call has posted exactly the one request (same credential,
\* same payload: the text and, when there are any, the variables) that query
\* posts for the same text and variables, and has returned the data or raised
\* the error that query gives for the same response.
C27_MutateIsQuery ==
    \A i \in DOMAIN api.calls :
        LET call == api.calls[i]
        IN  call.op = "mutate" =>
               LET asQuery == QueryCall(call.client, call.text, call.variables, call.resp)
               IN  /\ call.request = asQuery.request
                   /\ call.result = asQuery.result
                   /\ call.result.posts = 1
                   /\ call.request.payload.query = call.text
                   /\ HasVariables(call.variables) =>
                         call.request.payload.variables = call.variables

C27_Witness ==
    \E i \in DOMAIN api.calls :
        /\ api.calls[i].op = "mutate"
        /\ api.calls[i].text = "mutation { create_item }"
        /\ api.calls[i].request.payload.variables = "item_vars"
        /\ api.calls[i].result.raised
        /\ "errors" \in DOMAIN api.calls[i].result.error

ResolveCalls == {i \in DOMAIN drive.calls : drive.calls[i].op = "resolve"}

\* C28: resolve_project_folder answers by the priority of its docstring
\* (exact, Monday board name, single fuzzy match, auto-create, _Unsorted),
\* so it creates no folder while one folder fuzzy-matches the project alone.
C28_DocumentedPriority ==
    \A i \in ResolveCalls :
        LET call == drive.calls[i]
        IN /\ call.result.method =
                  DocumentedMethod(call.before, call.developer, call.project,
                                   call.monday_board_name, call.create_if_missing)
           /\ call.result.created /\ call.project # NoName
                  => find_project_folder(call.before, call.project) = NoName

RouteCalls == {i \in DOMAIN drive.calls : drive.calls[i].op = "route"}

\* C29: the route /api/onedrive/push copies each attachment it pushes into
\* the folder it resolved and reports as folder.path, whatever the method
\* of the resolution.
C29_CopiesIntoResolvedFolder ==
    \A i \in RouteCalls :
        LET response == drive.calls[i].response
        IN response.status = 200 =>
               \A k \in DOMAIN response.result.details :
                   response.result.details[k].success =>
                       response.result.details[k].target.folder = response.folder.path

PushCalls == {i \in DOMAIN drive.calls : drive.calls[i].op = "push"}

\* the directory holds the file under the dated name, under a date prefix
\* or under the name alone
Held(names, filename, date_prefix) ==
    \/ DatedName(date_prefix, filename) \in names
    \/ \E date \in Dates : DatedName(date, filename) \in names
    \/ filename \in names

\* C30: a push without force whose target directory already holds the file,
\* under the same dated name, under any YYYY-MM-DD_ prefix or under the name
\* without prefix, is reported as skipped and leaves the directory as it
\* was; so the second of two pushes of one attachment copies nothing.
C30_NoDuplicate ==
    /\ \A i \in PushCalls :
           LET call == drive.calls[i]
           IN call.source_exists /\ ~call.force
              /\ Held(call.before, call.clean_filename, call.date_prefix)
                  => IsSkipped(call.result) /\ call.after = call.before
    /\ \A i \in PushCalls, j \in PushCalls :
           LET first == drive.calls[i]
               second == drive.calls[j]
           IN i < j /\ first.path = second.path /\ first.subfolder = second.subfolder
              /\ ~second.force /\ first.result.success
                  => ~second.result.success

BoardItemsReturned ==
    /\ monday.op = "get_board_items"
    /\ ~monday.result.raised
    /\ "items" \in DOMAIN monday.result.value

RowIds == {monday.result.value.items[i].id : i \in DOMAIN monday.result.value.items}

\* C31: the rows get_board_items returns cover every item of the board, also
\* when the board holds more items than the limit and the service answers
\* with a cursor.
C31_AllItemsReturned ==
    BoardItemsReturned => RowIds = {svc.items[i].id : i \in DOMAIN svc.items}

ConsumerOperations == {"create_item", "update_item", "add_update_to_item"}

\* the dict of _make_request has exactly one of the keys data and error
OneOfDataAndError(made) == ("data" \in DOMAIN made) # ("error" \in DOMAIN made)

NotSubitem(node) == node.type # "subitem"

\* the same traversal drained with the subitems included
WithSubitems == RunAlone("lazy", LazyInit, svc, TRUE)

LazyEnded == lazy.pc \in {"done", "failed"}

\* C33: a traverse_hierarchy with include_subitems disabled that has ended
\* has yielded no subitem node; it has yielded what the traversal with the
\* subitems included yields, less the subitem nodes, and sent the same
\* requests, and ended the same way.
C33_SubitemsLeftOut ==
    LazyEnded /\ ~lazy.include_subitems =>
        /\ \A i \in DOMAIN lazy.yielded : NotSubitem(lazy.yielded[i])
        /\ lazy.yielded = SelectSeq(WithSubitems.yielded, NotSubitem)
        /\ lazy.log = WithSubitems.log
        /\ lazy.pc = WithSubitems.pc

C33_Witness ==
    /\ lazy.pc = "done"
    /\ ~lazy.include_subitems
    /\ DeliveredSubitems(lazy) # <<>>
    /\ Len(lazy.log) >= 3
    /\ Len(WithSubitems.yielded) > Len(lazy.yielded)

\* the page request the service answers without board has been answered
NoBoardAnswered(t) ==
    /\ svc.failKind = "noboard"
    /\ \E k \in DOMAIN t.log :
           /\ t.log[k].op = "items"
           /\ t.log[k].cursor = svc.failCursor
           /\ k < Len(t.log) \/ t.pc # "fetching"

\* the service whose board ends where the board of svc disappears
Truncated(s) ==
    [s EXCEPT !.items = IF s.failCursor = CursorNone THEN <<>>
                        ELSE SubSeq(@, 1, s.failCursor - 1),
              !.failKind = "none", !.failCursor = CursorNone]

\* C34: a page answer without board makes _fetch_items_page return an empty
\* page without cursor: nothing is raised, the traversal ends in DONE with the
\* items of the pages before, and what the caller gets is what a complete
\* traversal of a board of just those items gives.
C34_MissingBoardEndsQuietly ==
    /\ NoBoardAnswered(eager) =>
           /\ eager.error = NoError
           /\ eager.pc \in {"attaching", "done"}
           /\ eager.cursor = CursorNone
           /\ eager.pc = "done" =>
                  /\ eager.returned
                  /\ eager.delivered = Truncated(svc).items
                  /\ eager.tree = RunAlone("eager", EagerInit, Truncated(svc), TRUE).tree
    /\ NoBoardAnswered(lazy) =>
           /\ lazy.error = NoError
           /\ lazy.pc \in {"attaching", "done"}
           /\ lazy.cursor = CursorNone
           /\ lazy.pc = "done" =>
                  /\ lazy.delivered = Truncated(svc).items
                  /\ lazy.yielded =
                         RunAlone("lazy", LazyInit, Truncated(svc),
                                  lazy.include_subitems).yielded

C34_Witness ==
    /\ svc.failKind = "noboard"
    /\ svc.failCursor = 2
    /\ Len(svc.items) >= 2
    /\ NoBoardAnswered(eager) /\ eager.pc = "done" /\ Len(eager.delivered) = 1
    /\ NoBoardAnswered(lazy) /\ lazy.pc = "done" /\ Len(lazy.delivered) = 1

\* the service answers every page request with a non-empty cursor
KeepsCursor(s) ==
    \A c \in {CursorNone} \cup 1..(Len(s.items) + 1) :
        Truthy(FetchItemsPage(Query(ItemsResponse(s, c, PageSize))).cursor)

\* the page request that follows each answered one carries the cursor of the
\* answer, and none follows an answer with a falsy cursor
FollowsCursor(t) ==
    /\ \A k \in DOMAIN t.log :
           t.log[k].op = "items" /\ k > 2 => Truthy(t.log[k].cursor)
    /\ t.pc = "done" => ~Truthy(t.cursor)
    /\ t.pc = "fetching" /\ PageRequests(t) > 1 => t.log[Len(t.log)].cursor = t.cursor

\* C35: the loop of fetch_board and of traverse_hierarchy asks for the next
\* page whenever the last answer carried a non-empty cursor, also after an
\* empty page or a cursor seen before, and ends only on a falsy cursor;
\* against a service that answers every page request with a non-empty cursor
\* neither traversal ever ends, and the requests go on up to any number.
C35_LoopHasNoGuard ==
    /\ FollowsCursor(eager)
    /\ FollowsCursor(lazy)
    /\ KeepsCursor(svc) =>
           /\ eager.pc \notin {"done", "failed"}
           /\ lazy.pc \notin {"done", "failed"}
           /\ eager.pc = "attaching" => PageRequests(eager) = eager.posts - 1
           /\ lazy.pc = "attaching" => PageRequests(lazy) = lazy.posts - 1

\* an empty page with the cursor of the request before it, asked for again
\* and again up to the bound
C35_Witness ==
    /\ KeepsCursor(svc)
    /\ svc.cap = 0
    /\ eager.posts = MaxPosts /\ eager.pc = "fetching" /\ eager.delivered = <<>>
    /\ PageRequests(eager) = MaxPosts
    /\ \E j, k \in DOMAIN eager.log : j < k /\ eager.log[j] = eager.log[k]
    /\ lazy.posts = MaxPosts /\ lazy.pc = "fetching"

\* C36: push_multiple_attachments gives every attachment exactly one of
\* success, skipped and error, in the order of the list and going on after a
\* skipped or failed one: total = pushed + skipped + errors = the number of
\* attachments given; a missing source is an error, a successful one is in
\* the folder afterwards, and a skipped one met a file that was there before
\* the call or that an attachment earlier in the list put there.
MultipleCalls == {k \in DOMAIN drive.calls : drive.calls[k].op = "push_multiple"}

InOneClass(result) ==
    Cardinality({c \in {"success", "skipped", "errors"} :
                    \/ c = "success" /\ IsSuccess(result)
                    \/ c = "skipped" /\ IsSkipped(result)
                    \/ c = "errors" /\ IsError(result)}) = 1

EventIds == [i \in DOMAIN events.last.steps |->
                StripId(SplitIds(events.last.entry_ids)[i])]

RecordedAt(i) ==
    events.last.before
    \cup {EventIds[j] : j \in {j \in 1..(i - 1) : events.last.steps[j] = "processed"}}

C37_ProcessedAtMostOnce ==
    /\ \A h \in Handlers :
           /\ \A id \in NamedIds : events.succeeded[h][id] <= 1
           /\ events.processed_ids[h] = {id \in NamedIds : events.succeeded[h][id] = 1}
    /\ events.last.handler \in Handlers =>
           /\ events.last.dispatched =>
                  Len(events.last.steps) = Len(SplitIds(events.last.entry_ids))
           /\ \A i \in DOMAIN events.last.steps :
                  events.last.steps[i] = "skipped" <=> EventIds[i] \in RecordedAt(i)
           /\ events.processed_ids[events.last.handler]
                  = RecordedAt(Len(events.last.steps) + 1)

\* an id that failed under a handler, was later processed by it with
\* success, and is skipped by the event handled last
C37_Witness ==
    /\ events.last.handler \in Handlers
    /\ \E i \in DOMAIN events.last.steps :
           /\ events.last.steps[i] = "skipped"
           /\ EventIds[i] \in events.failed[events.last.handler]
           /\ events.succeeded[events.last.handler][EventIds[i]] = 1

\* C38: create_task_from_email makes its remote calls in the order board
\* search, item creation, description update. No item is created when the
\* search fails or matches no board; the update is sent only after the item
\* was created with success and only for a non-empty description; and a
\* failed update is ignored: the result reports success with the id of the
\* created item.
TaskCalls == [i \in DOMAIN monday.steps |-> monday.steps[i].call]

TaskTexts == [i \in DOMAIN monday.posted |-> monday.posted[i].payload.query]

Failed(result) == "error" \in DOMAIN result

C38_SearchCreateUpdate ==
    monday.op = "create_task_from_email" =>
        LET steps == monday.steps
            search == steps[1].result
        IN /\ TaskCalls \in {<<"search_boards">>, <<"search_boards", "create_item">>,
                             <<"search_boards", "create_item", "add_update_to_item">>}
           /\ TaskTexts = IF monday.client.raised THEN <<>>
                          ELSE SubSeq(<<SearchText, CreateItemText, CreateUpdateText>>,
                                      1, Len(steps))
           /\ Failed(search) \/ search.boards = <<>> <=> Len(steps) = 1
           /\ Len(steps) = 1 => Failed(monday.result)
           /\ Len(steps) >= 2 =>
                  /\ steps[2].board_id = search.boards[1].id
                  /\ Len(steps) = 3 <=>
                         ~Failed(steps[2].result) /\ monday.description # ""
                  /\ Failed(steps[2].result) => monday.result = steps[2].result
                  /\ ~Failed(steps[2].result) =>
                         monday.result = [success |-> TRUE,
                                          board_name |-> search.boards[1].name,
                                          item_id |-> steps[2].result.item_id,
                                          item_name |-> steps[2].result.item_name]
           /\ Len(steps) = 3 => steps[3].item_id = steps[2].result.item_id

\* the three requests went out, the update failed, and the task is reported
\* created
C38_Witness ==
    /\ monday.op = "create_task_from_email"
    /\ Len(monday.posted) = 3
    /\ Len(monday.steps) = 3
    /\ Failed(monday.steps[3].result)
    /\ monday.result.success
    /\ monday.result.item_id = "i1"

\* C39: watch_inbox processes every email that arrives while it is watching
\* exactly once: no email is handed to process_email by two different polls,
\* and when a scan has come to its end every email that arrived before that
\* scan started, those of the scan before it up to its reset of last_check
\* among them, has been handed to process_email, as long as nothing has
\* failed.
CallsOf(id) == {i \in DOMAIN watch.calls : watch.calls[i].id = id}

Arrived == {i \in DOMAIN watch.inbox : watch.inbox[i].received > 1}

C39_EveryEmailExactlyOnce ==
    /\ \A i \in Arrived :
           \A j, k \in CallsOf(watch.inbox[i].id) :
               watch.calls[j].poll = watch.calls[k].poll
    /\ watch.pc = "reset" /\ ~watch.failed =>
           \A i \in Arrived :
               watch.inbox[i].received < watch.scan_start =>
                   CallsOf(watch.inbox[i].id) # {}

====
